---- MODULE Spec2Model ----
(***************************************************************************)
(* Model of ai_auto_commit: the token budget ledger (token_budget.py) and  *)
(* the commit-message synthesis run (ai_auto_commit.py, heuristic_commits, *)
(* commit_generation, large_diff_handler).                                 *)
(***************************************************************************)
EXTENDS Integers, Sequences, FiniteSets, TLC

(***************************************************************************)
(* Bounds of the model.                                                    *)
(***************************************************************************)
\* threads that call the ledger concurrently (SpecLedger)
NumThreads == 2
\* largest amount passed to a ledger call (SpecLedger)
MaxAmount == 2
\* largest configured ceiling (SpecLedger)
MaxCeiling == 3

\* files in the staged change set handed to the heuristic summarizer
MaxFiles == 2
\* longest model response, in text pieces
MaxRespLen == 2
\* the ceilings tried are 0, CeilingStep, ..., MaxCeilingSteps * CeilingStep and the default
CeilingStep == 1000
MaxCeilingSteps == 2
\* tokens a previous run of the same process may have left in the ledger
MaxLeftover == 1
\* files in the staged diff; a chunk has 1 token or BigChunk tokens
MaxChunks == 2
BigChunk == 930

Threads == 1..NumThreads
Amounts == 0..MaxAmount
NoThread == 0

Max(a, b) == IF a >= b THEN a ELSE b
Min(a, b) == IF a <= b THEN a ELSE b

VARIABLES
    _tokens_spent,   \* token_budget.py: module global _tokens_spent
    _budget_lock,    \* token_budget.py: holder of _budget_lock (NoThread: free)
    token_budget,    \* the configured ceiling, config["token_budget"]
    thr,             \* SpecLedger: each caller thread's position in a ledger call
    pc,              \* main thread: position in the entry function and its callees
    exc,             \* the exception that ended the run ("none": none)
    bullets,         \* auto_commit_and_push: bullets built by build_heuristic_bullets
    call,            \* main thread: the model call being made, its reservation and answer
    commit_msg,      \* the synthesized message
    final_commit_msg,\* the message handed to `git commit -m`
    llm_calls,       \* number of invoke_llm calls made in this run
    resets,          \* number of reset_token_budget calls made in this run
    ledger_used,     \* a reservation was attempted or the model invoked in this run
    entered,         \* synthesis functions entered in this run
    git,             \* commit / push performed
    entry,           \* the function this run was started with
    chunks,          \* the per-file chunks of the staged diff (split_diff_by_file)
    tasks,           \* the worker pool's tasks: one summarise_file_diff call each
    attempt,         \* generate_commit_message_with_retry: loop variable
    waits,           \* generate_commit_message_with_retry: the time.sleep calls made
    split,           \* split_and_summarize_diff: its parameters and local variables
    fn               \* a function applied on its own: its name, arguments and result

ledgerVars == <<_tokens_spent, _budget_lock, token_budget, thr>>
runVars == <<pc, exc, bullets, call, commit_msg, final_commit_msg, llm_calls, resets,
             ledger_used, entered, git, entry, chunks, tasks, attempt, waits, split, fn>>
vars == <<_tokens_spent, _budget_lock, token_budget, thr, pc, exc, bullets, call,
          commit_msg, final_commit_msg, llm_calls, resets, ledger_used, entered, git,
          entry, chunks, tasks, attempt, waits, split, fn>>
\* what no step of a run changes
fixedInRun == <<_budget_lock, token_budget, thr, entry, fn>>
\* the state of the diff-based strategies
diffVars == <<chunks, tasks, attempt, waits, split>>

(***************************************************************************)
(* token_budget.py                                                         *)
(***************************************************************************)
_DEFAULT_TOKEN_BUDGET == 250000
\* the configuration store's read: the persisted settings as they are when read
_load_local_config == [token_budget |-> token_budget]
_get_max_token_budget == _load_local_config.token_budget

\* `with _budget_lock:` may be entered only while no thread holds the lock
LockFree_NoMutex == TRUE
LockFree == _budget_lock = NoThread

\* the admission test of try_reserve_tokens: `_tokens_spent + needed > max_budget` fails
Admits_OffByCeiling(spent, needed) == spent <= _get_max_token_budget
Admits_Strict(spent, needed) == spent + needed < _get_max_token_budget
Admits(spent, needed) == ~(spent + needed > _get_max_token_budget)

\* the value refund_tokens stores
Refunded_NoFloor(spent, count) == spent - count
Refunded_Nothing(spent, count) == spent
Refunded(spent, count) == Max(0, spent - count)

\* the value reset_token_budget stores
ResetTo_Keep(spent) == spent
ResetTo(spent) == 0

\* split_and_summarize_diff has not been called (failed: the batches whose request
\* raised; reply: what the final request came back with)
NoSplit ==
    [max_chunk_tokens |-> 0, context_limit |-> 0, summaries |-> <<>>, queue |-> <<>>,
     out |-> <<>>, round |-> 0, warned |-> FALSE, failed |-> {}, reply |-> "none"]

\* no function is applied on its own
NoFn == [name |-> "none"]

\* a thread that has made no call yet
IdleThread(r) == [pc |-> "idle", op |-> "none", n |-> 0, ret |-> r]
\* a thread back from a call (the record keeps the call and its argument)
Returned(t, r) == [thr[t] EXCEPT !.pc = "idle", !.ret = r]

\* a thread calls one of the ledger operations and reaches its `with _budget_lock:`
LedgerCall(t) ==
    /\ thr[t].pc = "idle"
    /\ \E op \in {"reserve", "refund", "reset"} :
         \E n \in (IF op = "reset" THEN {0} ELSE Amounts) :
            thr' = [thr EXCEPT ![t] = [pc |-> "wait", op |-> op, n |-> n, ret |-> "none"]]
    /\ UNCHANGED <<_tokens_spent, _budget_lock, token_budget>>
    /\ UNCHANGED runVars

\* the thread enters the critical section
LedgerAcquire(t) ==
    /\ thr[t].pc = "wait"
    /\ LockFree
    /\ _budget_lock' = t
    /\ thr' = [thr EXCEPT ![t].pc = "locked"]
    /\ UNCHANGED <<_tokens_spent, token_budget>>
    /\ UNCHANGED runVars

\* try_reserve_tokens, lines 38-40: read the ceiling, test, return False
try_reserve_tokens_check(t) ==
    /\ thr[t].pc = "locked" /\ thr[t].op = "reserve"
    /\ IF Admits(_tokens_spent, thr[t].n)
         THEN /\ thr' = [thr EXCEPT ![t].pc = "add"]
              /\ UNCHANGED _budget_lock
         ELSE /\ thr' = [thr EXCEPT ![t] = Returned(t, "False")]
              /\ _budget_lock' = NoThread
    /\ UNCHANGED <<_tokens_spent, token_budget>>
    /\ UNCHANGED runVars

\* try_reserve_tokens, lines 41-42: add, return True
try_reserve_tokens_add(t) ==
    /\ thr[t].pc = "add"
    /\ _tokens_spent' = _tokens_spent + thr[t].n
    /\ thr' = [thr EXCEPT ![t] = Returned(t, "True")]
    /\ _budget_lock' = NoThread
    /\ UNCHANGED token_budget
    /\ UNCHANGED runVars

\* refund_tokens, line 66
refund_tokens_body(t) ==
    /\ thr[t].pc = "locked" /\ thr[t].op = "refund"
    /\ _tokens_spent' = Refunded(_tokens_spent, thr[t].n)
    /\ thr' = [thr EXCEPT ![t] = Returned(t, "None")]
    /\ _budget_lock' = NoThread
    /\ UNCHANGED token_budget
    /\ UNCHANGED runVars

\* reset_token_budget, line 73
reset_token_budget_body(t) ==
    /\ thr[t].pc = "locked" /\ thr[t].op = "reset"
    /\ _tokens_spent' = ResetTo(_tokens_spent)
    /\ thr' = [thr EXCEPT ![t] = Returned(t, "None")]
    /\ _budget_lock' = NoThread
    /\ UNCHANGED token_budget
    /\ UNCHANGED runVars


(***************************************************************************)
(* Text.  A text is a sequence of pieces; a model response is made of the  *)
(* pieces FENCE (a run of backticks), SP (a run of whitespace) and TXT     *)
(* (a run of other characters).  Messages composed locally are sequences   *)
(* of their lines.                                                         *)
(***************************************************************************)
\* FENCE stands for a run of three backquotes
FENCE == "~~~"
SP == " "
TXT == "x"
Pieces == {FENCE, SP, TXT}
Texts(n) == UNION {[1..k -> Pieces] : k \in 0..n}

RECURSIVE lstrip_chars(_, _)
lstrip_chars(s, ch) ==
    IF s # <<>> /\ Head(s) \in ch THEN lstrip_chars(Tail(s), ch) ELSE s
RECURSIVE rstrip_chars(_, _)
rstrip_chars(s, ch) ==
    IF s # <<>> /\ s[Len(s)] \in ch THEN rstrip_chars(SubSeq(s, 1, Len(s) - 1), ch) ELSE s
\* str.strip(chars)
strip_chars(s, ch) == rstrip_chars(lstrip_chars(s, ch), ch)
\* str.strip()
strip(s) == strip_chars(s, {SP})

\* token_utils.token_len: the tokenizer, taken as one token per four characters
RECURSIVE token_len(_)
token_len(s) ==
    IF s = <<>> THEN 0 ELSE ((Len(Head(s)) + 3) \div 4) + token_len(Tail(s))

\* llm_client.get_token_usage: (prompt_tokens, completion_tokens), summed by every caller
real_spent(prompt_tokens, content) == prompt_tokens + token_len(content)

\* what invoke_llm does: return a text, or raise RuntimeError wrapping the cause
Responses(texts) ==
    {[kind |-> "ok", text |-> t] : t \in texts}
        \cup {[kind |-> "raise", text |-> <<e>>] : e \in {"timeout", "bad request"}}

(***************************************************************************)
(* prompts.py and the fixed parts of the prompts, in tokens                *)
(***************************************************************************)
PROMPT_HEADER_TOKENS == 493
ComposeIntroTokens == 25
ComposeCompletion == 192
BulletCap == 200
LocalBodyCap == 10

(***************************************************************************)
(* heuristic_commits.py                                                    *)
(***************************************************************************)
\* the staged paths of the model, as their slash-separated segments
PathUniverse ==
    { <<"foo", "bar.py">>, <<"tests", "test_a.py">>, <<"docs", "guide.md">>,
      <<"config.yaml">>, <<"foo", "x", "bar.py">> }

\* the substrings, among those the code looks for, that occur in the lower-cased path
PathSubstrings(path) ==
    CASE path = <<"tests", "test_a.py">> -> {"test", "tests"}
      [] path = <<"docs", "guide.md">> -> {"docs/", ".md", "docs"}
      [] path = <<"config.yaml">> -> {".yaml"}
      [] OTHER -> {}

categorize_path(path) ==
    LET p == PathSubstrings(path) IN
    IF p \cap {"test", "_test.go$", "/tests/"} # {} THEN "test"
    ELSE IF p \cap {"readme", "docs/", "/doc/", ".md"} # {} THEN "docs"
    ELSE IF p \cap {".lock$", "bun.lockb$", "yarn.lock$", "pnpm-lock.yaml$",
                    "package-lock.json$"} # {} THEN "chore"
    ELSE IF p \cap {"config/", "/config", ".toml", ".yaml", ".yml", ".json"} # {} THEN "chore"
    ELSE "code"

\* one bullet of build_heuristic_bullets: its text, and which of the substrings the
\* local composer looks for ("tests", "docs", "tooling/config") the text contains
HeuristicBullet(fc) ==
    LET path == fc.path
        category == categorize_path(path)
        scope == path[1]
        verb == CASE fc.status = "A" -> "Add"
                  [] fc.status = "D" -> "Remove"
                  [] fc.status = "R" -> "Rename"
                  [] fc.status = "C" -> "Copy"
                  [] OTHER -> "Update"
        short_name == path[Len(path)]
        size_note == IF fc.added # 0 \/ fc.deleted # 0
                       THEN " (+" \o ToString(fc.added) \o " -" \o ToString(fc.deleted) \o ")"
                       ELSE ""
        clause == CASE category = "test" -> "tests"
                    [] category = "docs" -> "docs"
                    [] category = "chore" -> "tooling/config"
                    [] OTHER -> "code"
    IN [text |-> "- " \o verb \o " " \o clause \o " in " \o scope \o ": " \o short_name
                   \o size_note,
        has |-> ({clause} \cup PathSubstrings(path)) \cap {"tests", "docs", "tooling/config"}]

Dedup_KeepAll(bs, seen) == bs
RECURSIVE Dedup(_, _)
Dedup(bs, seen) ==
    IF bs = <<>> THEN <<>>
    ELSE IF Head(bs).text \in seen THEN Dedup(Tail(bs), seen)
    ELSE <<Head(bs)>> \o Dedup(Tail(bs), seen \cup {Head(bs).text})

\* build_heuristic_bullets over the name-status entries in dict order
build_heuristic_bullets(files) ==
    Dedup([i \in 1..Len(files) |-> HeuristicBullet(files[i])], {})

\* the conventional-commit type the local composer maps a majority category to
type_map_AllFeat(commit_type) == "feat"
type_map(commit_type) ==
    CASE commit_type = "code" -> "chore"
      [] commit_type = "chore" -> "chore"
      [] commit_type = "docs" -> "docs"
      [] commit_type = "test" -> "test"

compose_commit_from_bullets_local(bs) ==
    LET n(cat) == Cardinality({i \in 1..Len(bs) :
                     CASE cat = "test" -> "tests" \in bs[i].has
                       [] cat = "docs" -> "tests" \notin bs[i].has /\ "docs" \in bs[i].has
                       [] cat = "chore" -> bs[i].has = {"tooling/config"}
                       [] OTHER -> bs[i].has = {}})
        order == <<"test", "docs", "chore", "code">>
        \* max(counts.keys(), key=...): the first key with the largest count
        first == CHOOSE i \in 1..4 :
                    /\ \A j \in 1..4 : n(order[j]) <= n(order[i])
                    /\ \A j \in 1..(i - 1) : n(order[j]) < n(order[i])
        commit_type == order[first]
        title == CASE commit_type = "test" -> "update tests"
                   [] commit_type = "docs" -> "update docs"
                   [] commit_type = "chore" -> "maintenance updates"
                   [] OTHER -> "update code"
        body_lines == [i \in 1..Min(Len(bs), LocalBodyCap) |-> bs[i].text]
        more == IF Len(bs) > LocalBodyCap
                  THEN <<"- and " \o ToString(Len(bs) - LocalBodyCap) \o " more changes">>
                  ELSE <<>>
    IN <<type_map(commit_type) \o ":", title, "Summary of changes">> \o body_lines \o more

\* the prompt of compose_commit_from_bullets, in tokens: header, intro, at most 200 bullets
ComposePromptTokens(bs) ==
    PROMPT_HEADER_TOKENS + ComposeIntroTokens
        + token_len([i \in 1..Min(Len(bs), BulletCap) |-> bs[i].text])

\* the text compose_commit_from_bullets returns for a non-empty response
clean_reply(content) == strip(strip_chars(strip(content), {FENCE}))

InitLedger ==
    /\ _tokens_spent = 0
    /\ _budget_lock = NoThread
    /\ token_budget \in 0..MaxCeiling
    /\ thr = [t \in Threads |-> IdleThread("None")]
    /\ entry = "ledger"
    /\ pc = "none"
    /\ exc = "none"
    /\ bullets = <<>>
    /\ call = [resv |-> "none", est |-> 0]
    /\ commit_msg = <<>>
    /\ final_commit_msg = <<>>
    /\ llm_calls = 0
    /\ resets = 0
    /\ ledger_used = FALSE
    /\ entered = {}
    /\ git = [committed |-> FALSE, pushed |-> FALSE]
    /\ chunks = <<>>
    /\ tasks = <<>>
    /\ attempt = 0
    /\ waits = <<>>
    /\ split = NoSplit
    /\ fn = NoFn

NextLedger ==
    \E t \in Threads :
        \/ LedgerCall(t)
        \/ LedgerAcquire(t)
        \/ try_reserve_tokens_check(t)
        \/ try_reserve_tokens_add(t)
        \/ refund_tokens_body(t)
        \/ reset_token_budget_body(t)

SpecLedger == InitLedger /\ [][NextLedger]_vars

(***************************************************************************)
(* Properties of the ledger (SpecLedger).                                  *)
(***************************************************************************)
PassedCheck == {t \in Threads : thr[t].pc = "add"}

\* C1: try_reserve_tokens is one atomic check-and-add.  Under every interleaving of the
\* threads, at most one call is between its check and its add, and the check it passed
\* (spent + n <= ceiling) still holds when it adds: no two calls both pass the check and
\* together leave spent above the ceiling.
C1_AtomicCheckAndAdd ==
    /\ Cardinality(PassedCheck) <= 1
    /\ \A t \in PassedCheck :
          /\ _budget_lock = t
          /\ _tokens_spent + thr[t].n <= _get_max_token_budget

\* one call has passed its check while another, which would also pass it now but does
\* not fit together with the first, waits for the lock
C1_Witness ==
    \E t, u \in Threads :
        /\ t # u
        /\ thr[t].pc = "add" /\ thr[t].n > 0
        /\ thr[u].pc = "wait" /\ thr[u].op = "reserve"
        /\ _tokens_spent + thr[u].n <= _get_max_token_budget
        /\ _tokens_spent + thr[t].n + thr[u].n > _get_max_token_budget

\* C2: in every state reached by try_reserve_tokens, refund_tokens and
\* reset_token_budget calls, in any order and interleaving, with non-negative amounts
\* and a fixed ceiling, spent <= ceiling.
C2_SpentWithinCeiling == _tokens_spent <= _get_max_token_budget

\* the ledger is full, and a reservation of a positive amount has been refused
C2_Witness ==
    /\ _get_max_token_budget > 0
    /\ _tokens_spent = _get_max_token_budget
    /\ \E t \in Threads :
          thr[t].pc = "idle" /\ thr[t].op = "reserve" /\ thr[t].n > 0 /\ thr[t].ret = "False"

\* a thread returns from try_reserve_tokens in this step
ReserveReturns(t) ==
    thr[t].op = "reserve" /\ thr[t].pc \in {"locked", "add"} /\ thr'[t].pc = "idle"

\* C3: try_reserve_tokens(n) returns True and has added exactly n to spent when
\* spent + n <= ceiling; otherwise it returns False and has left spent unchanged.
C3_ReserveContract ==
    [][\A t \in Threads :
          ReserveReturns(t) =>
             IF _tokens_spent + thr[t].n <= _get_max_token_budget
               THEN thr'[t].ret = "True" /\ _tokens_spent' = _tokens_spent + thr[t].n
               ELSE thr'[t].ret = "False" /\ _tokens_spent' = _tokens_spent]_vars

\* one reservation has been granted and a larger one refused, with the ledger neither
\* empty nor full
C3_Witness ==
    /\ \E t, u \in Threads :
          /\ thr[t].pc = "idle" /\ thr[t].op = "reserve" /\ thr[t].ret = "True"
          /\ thr[u].pc = "idle" /\ thr[u].op = "reserve" /\ thr[u].ret = "False"
          /\ thr[t].n < thr[u].n
    /\ 0 < _tokens_spent
    /\ _tokens_spent < _get_max_token_budget

\* a thread executes the body of refund_tokens in this step
RefundRuns(t) == thr[t].op = "refund" /\ thr[t].pc = "locked" /\ thr'[t].pc = "idle"

\* C4: refund_tokens(n) sets spent to max(0, spent - n); spent is never below 0 after a
\* refund, whatever n and the state before.
C4_RefundFloor ==
    [][\A t \in Threads :
          RefundRuns(t) =>
             /\ _tokens_spent' = Max(0, _tokens_spent - thr[t].n)
             /\ _tokens_spent' >= 0]_vars

\* a refund larger than the ceiling, hence larger than what was spent, has run after a
\* reservation was granted, and has left the ledger at 0
C4_Witness ==
    /\ _tokens_spent = 0
    /\ \E t, u \in Threads :
          /\ thr[t].pc = "idle" /\ thr[t].op = "refund" /\ thr[t].n > _get_max_token_budget
          /\ thr[u].pc = "idle" /\ thr[u].op = "reserve" /\ thr[u].n > 0
          /\ thr[u].ret = "True"

(***************************************************************************)
(* The run: ledger calls are single steps (each is one critical section).  *)
(***************************************************************************)
Ceilings == {k * CeilingStep : k \in 0..MaxCeilingSteps} \cup {_DEFAULT_TOKEN_BUDGET}

\* no answer yet
NoReply == [kind |-> "none", text |-> <<>>]
NoCall == [resv |-> "none", est |-> 0, before |-> 0, reply |-> NoReply]
NoMsg == <<>>

\* try_reserve_tokens as one step: the new value of _tokens_spent
try_reserve_tokens(needed) ==
    IF Admits(_tokens_spent, needed) THEN _tokens_spent + needed ELSE _tokens_spent

\* the main thread's record of a call: the reservation made for it, the value of
\* _tokens_spent before that reservation, and the model's answer once a composing,
\* final-synthesis or single-shot call is back
NewCall(resv, est) == [resv |-> resv, est |-> est, before |-> _tokens_spent, reply |-> NoReply]

\* a true-up to the usage counted, whatever was reserved
true_up_ToActual(est, real) == _tokens_spent - (est - real)

\* the true-up after a call that returned: refund est - real when real < est
true_up(est, real) ==
    IF real < est THEN Refunded(_tokens_spent, est - real) ELSE _tokens_spent

\* the name-status entries handed to the heuristic summarizer
FileChange(path) == [path |-> path, status |-> "A", added |-> 10, deleted |-> 0]
FileLists ==
    {fs \in UNION {[1..k -> PathUniverse] : k \in 0..MaxFiles} :
        \A i, j \in 1..Len(fs) : fs[i] = fs[j] => i = j}

\* a return of the synthesis past the commit
SynthesisReturn_PastCommit ==
    IF entry = "auto_commit_and_push" THEN "acp_push" ELSE "returned"

\* where a synthesis function returns to
SynthesisReturn == IF entry = "auto_commit_and_push" THEN "acp_comment" ELSE "returned"

Raise(e) ==
    /\ pc' = "raised"
    /\ exc' = e

(***************************************************************************)
(* ai_auto_commit.py: auto_commit_and_push                                 *)
(***************************************************************************)
\* lines 107-141: safety verification, repository status, push of unpushed commits
acp_status_check ==
    /\ pc = "acp_start"
    /\ \/ Raise("RuntimeError: safety verification failed") /\ UNCHANGED git
       \/ pc' = "returned_early" /\ UNCHANGED <<exc, git>>
       \/ pc' = "returned_early" /\ git' = [git EXCEPT !.pushed = TRUE] /\ UNCHANGED exc
       \/ Raise("CalledProcessError: push") /\ UNCHANGED git
       \/ pc' = "acp_reset" /\ UNCHANGED <<exc, git>>
    /\ UNCHANGED <<_tokens_spent, fixedInRun, bullets, call, commit_msg, final_commit_msg,
                   llm_calls, resets, ledger_used, entered>>
    /\ UNCHANGED diffVars

\* lines 144-150: ensure_initialized, reset_token_budget, create_safety_backup
acp_reset_budget ==
    /\ pc = "acp_reset"
    /\ _tokens_spent' = ResetTo(_tokens_spent)
    /\ resets' = resets + 1
    /\ pc' = "acp_staged"
    /\ UNCHANGED <<fixedInRun, exc, bullets, call, commit_msg, final_commit_msg, llm_calls,
                   ledger_used, entered, git>>
    /\ UNCHANGED diffVars

\* a staged check made behind the reservation for the composing call
acp_check_staged_ReservesFirst ==
    /\ pc = "acp_staged"
    /\ \/ /\ Raise("RuntimeError: No staged files found")
          /\ _tokens_spent' = try_reserve_tokens(1)
          /\ ledger_used' = TRUE
       \/ pc' = "acp_heuristic" /\ UNCHANGED <<exc, _tokens_spent, ledger_used>>
    /\ UNCHANGED <<fixedInRun, bullets, call, commit_msg, final_commit_msg, llm_calls,
                   resets, entered, git>>
    /\ UNCHANGED diffVars

\* lines 152-225: no staged file, or an empty filtered diff, ends the run
acp_check_staged ==
    /\ pc = "acp_staged"
    /\ \/ Raise("RuntimeError: No staged files found")
       \/ Raise("RuntimeError: No staged changes to commit")
       \/ pc' = "acp_heuristic" /\ UNCHANGED exc
    /\ UNCHANGED <<_tokens_spent, fixedInRun, bullets, call, commit_msg, final_commit_msg,
                   llm_calls, resets, ledger_used, entered, git>>
    /\ UNCHANGED diffVars

\* `if bullets:` of line 241
HeuristicTaken_Never(bs) == FALSE
HeuristicTaken(bs) == bs # <<>>

\* lines 227-251: name-status / numstat, bullets, choice of the strategy
acp_build_bullets ==
    /\ pc = "acp_heuristic"
    /\ \E bs \in {<<>>} \cup {build_heuristic_bullets([i \in 1..Len(fs) |-> FileChange(fs[i])]) :
                               fs \in FileLists} :
          /\ bullets' = bs
          /\ IF HeuristicTaken(bs)
               THEN /\ pc' = "compose_reserve"
                    /\ entered' = entered \cup {"compose_commit_from_bullets"}
               ELSE /\ pc' = "smart_start"
                    /\ entered' = entered \cup {"smart_hierarchical_commit_message"}
    /\ UNCHANGED <<_tokens_spent, fixedInRun, exc, call, commit_msg, final_commit_msg,
                   llm_calls, resets, ledger_used, git>>
    /\ UNCHANGED diffVars

(***************************************************************************)
(* heuristic_commits.py: compose_commit_from_bullets                       *)
(***************************************************************************)
\* lines 129-141: build the prompt, reserve; on failure return the local message
compose_reserve ==
    /\ pc = "compose_reserve"
    /\ LET est == ComposePromptTokens(bullets) + ComposeCompletion IN
       /\ _tokens_spent' = try_reserve_tokens(est)
       /\ ledger_used' = TRUE
       /\ IF Admits(_tokens_spent, est)
            THEN /\ call' = NewCall("hard_ok", est)
                 /\ pc' = "compose_invoke"
                 /\ UNCHANGED commit_msg
            ELSE /\ call' = NewCall("hard_fail", est)
                 /\ commit_msg' = compose_commit_from_bullets_local(bullets)
                 /\ pc' = SynthesisReturn
    /\ UNCHANGED <<fixedInRun, exc, bullets, final_commit_msg, llm_calls, resets, entered,
                   git>>
    /\ UNCHANGED diffVars

\* line 143: the request is sent
compose_invoke ==
    /\ pc = "compose_invoke"
    /\ llm_calls' = llm_calls + 1
    /\ pc' = "compose_wait"
    /\ UNCHANGED <<_tokens_spent, fixedInRun, exc, bullets, call, commit_msg,
                   final_commit_msg, resets, ledger_used, entered, git>>
    /\ UNCHANGED diffVars

\* lines 143-159: invoke_llm returns or raises (no handler here); true-up; the message
compose_complete ==
    /\ pc = "compose_wait"
    /\ \E r \in Responses(Texts(MaxRespLen)) :
         /\ call' = [call EXCEPT !.reply = r]
         /\ IF r.kind = "raise"
              THEN /\ Raise("RuntimeError: Error invoking model")
                   /\ UNCHANGED <<_tokens_spent, commit_msg>>
              ELSE /\ _tokens_spent' =
                          true_up(call.est, real_spent(ComposePromptTokens(bullets), r.text))
                   /\ commit_msg' = IF r.text # <<>> THEN clean_reply(r.text)
                                    ELSE compose_commit_from_bullets_local(bullets)
                   /\ pc' = SynthesisReturn
                   /\ UNCHANGED exc
    /\ UNCHANGED <<fixedInRun, bullets, final_commit_msg, llm_calls, resets,
                   ledger_used, entered, git>>
    /\ UNCHANGED diffVars

(***************************************************************************)
(* commit_generation.py                                                    *)
(***************************************************************************)
SummariseIntroTokens == 29
SummariseCompletion == 64
HierIntroTokens == 19
SampledIntroTokens == 26
FinalCompletion == 192
RetryCompletion == 192
SampleSize == 10
max_workers == 8
max_retries == 3
MAX_CHARS == 400000

\* the diffs of the model: 1..MaxChunks files "b/f1", "b/f2", ..., small or big
ChunkLists ==
    UNION {{[i \in 1..k |-> [file |-> i, size |-> f[i]]] : f \in [1..k -> {1, BigChunk}]} :
              k \in 1..MaxChunks}

RECURSIVE SumSizes(_)
SumSizes(cs) == IF cs = <<>> THEN 0 ELSE Head(cs).size + SumSizes(Tail(cs))

\* what the model answers to a per-file summary request
WorkerTexts == {<<>>, <<TXT>>}

\* the bullets of stage 1
NoBullet == [kind |-> "none", file |-> 0, text |-> <<>>]
LlmBullet(content) == [kind |-> "llm", file |-> 0, text |-> strip(content)]
UpdatePathBullet(chunk) == [kind |-> "update_path", file |-> chunk.file, text |-> <<>>]
UpdateFileBullet == [kind |-> "update_file", file |-> 0, text |-> <<>>]
AdditionalBullet(n) == [kind |-> "additional", file |-> n, text |-> <<>>]

BulletText(b) ==
    CASE b.kind = "llm" -> <<"- ">> \o b.text
      [] b.kind = "update_path" -> <<"- Update b/f" \o ToString(b.file)>>
      [] b.kind = "update_file" -> <<"- Update file">>
      [] b.kind = "additional" -> <<"- Update " \o ToString(b.file) \o " additional files">>
      [] OTHER -> <<>>

\* the place of a bullet's text in the order of Python's string comparison:
\* "- " < "- Update <digit>..." < "- Update b/f<i>" < "- Update file" < "- x..."
SortKey(b) ==
    CASE b.kind = "llm" /\ b.text = <<>> -> 0
      [] b.kind = "additional" -> 1
      [] b.kind = "update_path" -> 10 + b.file
      [] b.kind = "update_file" -> 1000
      [] OTHER -> 2000

RECURSIVE InsertSorted(_, _)
InsertSorted(b, bs) ==
    IF bs = <<>> THEN <<b>>
    ELSE IF SortKey(b) < SortKey(Head(bs)) THEN <<b>> \o bs
    ELSE <<Head(bs)>> \o InsertSorted(b, Tail(bs))
RECURSIVE sorted(_)
sorted(bs) ==
    IF bs = <<>> THEN <<>> ELSE InsertSorted(bs[Len(bs)], sorted(SubSeq(bs, 1, Len(bs) - 1)))

RECURSIVE JoinTokens(_)
JoinTokens(bs) ==
    IF bs = <<>> THEN 0 ELSE token_len(BulletText(Head(bs))) + JoinTokens(Tail(bs))

\* the prompt of summarise_file_diff, in tokens
SummarisePromptTokens(chunk) == SummariseIntroTokens + chunk.size

\* estimate_stage1_budget: max_files_affordable
max_files_affordable_NineTenths(cs) ==
    LET sample_size == Min(SampleSize, Len(cs))
        total_sample_tokens ==
            SumSizes(SubSeq(cs, 1, sample_size))
                + sample_size * (SummariseIntroTokens + SummariseCompletion)
    IN (((9 * _get_max_token_budget) \div 10) * sample_size) \div total_sample_tokens
max_files_affordable(cs) ==
    LET sample_size == Min(SampleSize, Len(cs))
        sample == SubSeq(cs, 1, sample_size)
        total_sample_tokens ==
            SumSizes(sample) + sample_size * (SummariseIntroTokens + SummariseCompletion)
        max_budget == _get_max_token_budget
        stage2_reserve == max_budget \div 10
        available_for_stage1 == max_budget - stage2_reserve
    IN  \* int(available / (total / sample_size))
        (available_for_stage1 * sample_size) \div total_sample_tokens

\* sampled_commit_message, lines 119-124: the max_files largest chunks, largest first,
\* equal sizes in their original order (list.sort is stable)
RECURSIVE LargestFirst(_)
LargestFirst(cs) ==
    IF cs = <<>> THEN <<>>
    ELSE LET i == CHOOSE i \in 1..Len(cs) :
                     /\ \A j \in 1..Len(cs) : cs[j].size <= cs[i].size
                     /\ \A j \in 1..(i - 1) : cs[j].size < cs[i].size
         IN <<cs[i]>> \o LargestFirst(SubSeq(cs, 1, i - 1) \o SubSeq(cs, i + 1, Len(cs)))
selected_chunks_FirstOnes(cs, max_files) ==
    SubSeq(cs, 1, Min(Max(max_files, 0), Len(cs)))
selected_chunks(cs, max_files) ==
    SubSeq(LargestFirst(cs), 1, Min(Max(max_files, 0), Len(cs)))

\* the calls handed to pool.map: the item (a file chunk, or a batch), the call's
\* reservation, and its result (a bullet, or a batch summary)
NewTasks_SkipLast(cs) ==
    [i \in 1..(Len(cs) - 1) |->
        [chunk |-> cs[i], pc |-> "queued", resv |-> "none", est |-> 0, bullet |-> NoBullet]]
NewTasks(cs) ==
    [i \in 1..Len(cs) |->
        [chunk |-> cs[i], pc |-> "queued", resv |-> "none", est |-> 0, bullet |-> NoBullet]]

\* the prompt of the fallback single shot: header, newline, the diff cut to MAX_CHARS
FullPromptTokens(cs) ==
    LET diff_chars == 4 * SumSizes(cs)
    IN PROMPT_HEADER_TOKENS + 1
         + (IF diff_chars > MAX_CHARS THEN (MAX_CHARS \div 4) + 10 ELSE SumSizes(cs))

STATIC_MESSAGE == <<"chore: update files", "", "General file updates and improvements">>

\* smart_hierarchical_commit_message, lines 335-358: split, estimate, choose the path
smart_start ==
    /\ pc = "smart_start"
    /\ \E cs \in ChunkLists :
         /\ chunks' = cs
         /\ IF Len(cs) > max_files_affordable(cs)
              THEN /\ pc' = "samp_pool"
                   /\ entered' = entered \cup {"sampled_commit_message"}
                   /\ tasks' = NewTasks(selected_chunks(cs, max_files_affordable(cs)))
              ELSE /\ pc' = "hier_pool"
                   /\ entered' = entered \cup {"hierarchical_commit_message"}
                   /\ tasks' = NewTasks(cs)
    /\ UNCHANGED <<_tokens_spent, fixedInRun, exc, bullets, call, commit_msg,
                   final_commit_msg, llm_calls, resets, ledger_used, git, attempt, waits>>
    /\ UNCHANGED split

\* hierarchical_commit_message called directly, lines 186-198
hier_start ==
    /\ pc = "hier_start"
    /\ \E cs \in ChunkLists :
         /\ chunks' = cs
         /\ tasks' = NewTasks(cs)
    /\ pc' = "hier_pool"
    /\ entered' = entered \cup {"hierarchical_commit_message"}
    /\ UNCHANGED <<_tokens_spent, fixedInRun, exc, bullets, call, commit_msg,
                   final_commit_msg, llm_calls, resets, ledger_used, git, attempt, waits>>
    /\ UNCHANGED split

Running == {i \in 1..Len(tasks) : tasks[i].pc \in {"reserve", "invoke", "wait"}}
AllDone == \A i \in 1..Len(tasks) : tasks[i].pc = "done"

\* ThreadPoolExecutor(max_workers=8).map (hierarchical, sampled and split paths): a free
\* worker takes the next queued item
pool_start(i) ==
    /\ pc \in {"hier_pool", "samp_pool", "split_pool"}
    /\ tasks[i].pc = "queued"
    /\ \A j \in 1..(i - 1) : tasks[j].pc # "queued"
    /\ Cardinality(Running) < max_workers
    /\ tasks' = [tasks EXCEPT ![i].pc = "reserve"]
    /\ UNCHANGED <<_tokens_spent, fixedInRun, pc, exc, bullets, call, commit_msg,
                   final_commit_msg, llm_calls, resets, ledger_used, entered, git, chunks,
                   attempt, waits>>
    /\ UNCHANGED split

\* `if not try_reserve_tokens(...)`: the call is given up
Refused_Ignored(ok) == FALSE
Refused(ok) == ~ok

\* summarise_file_diff, lines 33-47: prompt, estimate, reservation or local bullet
summarise_file_diff_reserve(i) ==
    /\ pc \in {"hier_pool", "samp_pool"}
    /\ tasks[i].pc = "reserve"
    /\ LET est == SummarisePromptTokens(tasks[i].chunk) + SummariseCompletion
           ok == Admits(_tokens_spent, est)
       IN /\ _tokens_spent' = try_reserve_tokens(est)
          /\ ledger_used' = TRUE
          /\ tasks' = [tasks EXCEPT ![i] =
                IF Refused(ok)
                  THEN [@ EXCEPT !.pc = "done", !.est = est, !.resv = "hard_fail",
                                 !.bullet = UpdatePathBullet(tasks[i].chunk)]
                  ELSE [@ EXCEPT !.pc = "invoke", !.est = est,
                                 !.resv = IF ok THEN "hard_ok" ELSE "hard_fail"]]
    /\ UNCHANGED <<fixedInRun, pc, exc, bullets, call, commit_msg, final_commit_msg,
                   llm_calls, resets, entered, git, chunks, attempt, waits>>
    /\ UNCHANGED split

\* summarise_file_diff, line 50: the request is sent
summarise_file_diff_invoke(i) ==
    /\ pc \in {"hier_pool", "samp_pool"}
    /\ tasks[i].pc = "invoke"
    /\ llm_calls' = llm_calls + 1
    /\ tasks' = [tasks EXCEPT ![i].pc = "wait"]
    /\ UNCHANGED <<_tokens_spent, fixedInRun, pc, exc, bullets, call, commit_msg,
                   final_commit_msg, resets, ledger_used, entered, git, chunks, attempt,
                   waits>>
    /\ UNCHANGED split

\* summarise_file_diff, lines 50-75: the answer, the true-up and the bullet; or the
\* exception, the full refund and the local bullet
summarise_file_diff_complete(i) ==
    /\ pc \in {"hier_pool", "samp_pool"}
    /\ tasks[i].pc = "wait"
    /\ \E r \in Responses(WorkerTexts) :
         IF r.kind = "raise"
           THEN /\ _tokens_spent' = Refunded(_tokens_spent, tasks[i].est)
                /\ tasks' = [tasks EXCEPT ![i].pc = "done",
                                          ![i].bullet = UpdatePathBullet(tasks[i].chunk)]
           ELSE /\ _tokens_spent' =
                      true_up(tasks[i].est,
                              real_spent(SummarisePromptTokens(tasks[i].chunk), r.text))
                /\ tasks' = [tasks EXCEPT ![i].pc = "done",
                                          ![i].bullet = IF r.text # <<>> THEN LlmBullet(r.text)
                                                        ELSE UpdateFileBullet]
    /\ UNCHANGED <<fixedInRun, pc, exc, bullets, call, commit_msg, final_commit_msg,
                   llm_calls, resets, ledger_used, entered, git, chunks, attempt, waits>>
    /\ UNCHANGED split

\* the bullets handed to stage 2: pool.map yields them in task order; the sampled path
\* appends one bullet for the files it left out; both sort them
Stage1Bullets(stage) ==
    LET got == [i \in 1..Len(tasks) |-> tasks[i].bullet]
        remaining_count == Len(chunks) - Len(tasks)
    IN sorted(IF stage = "samp" /\ remaining_count > 0
                THEN got \o <<AdditionalBullet(remaining_count)>>
                ELSE got)

FinalPromptTokens(stage) ==
    PROMPT_HEADER_TOKENS + (IF stage = "samp" THEN SampledIntroTokens ELSE HierIntroTokens)
        + JoinTokens(Stage1Bullets(stage))

\* both handlers (hierarchical_commit_message line 235, smart_hierarchical_commit_message
\* line 360) turn an exception into the single shot over the full diff
ToSingleShot ==
    /\ pc' = "retry_netcheck"
    /\ entered' = entered \cup {"generate_commit_message_with_retry"}

\* stage 2, reservation (hierarchical lines 200-215, sampled lines 138-158)
FinalReserve(stage) ==
    /\ pc = stage \o "_pool"
    /\ AllDone
    /\ LET est == FinalPromptTokens(stage) + FinalCompletion IN
       /\ _tokens_spent' = try_reserve_tokens(est)
       /\ ledger_used' = TRUE
       /\ IF Admits(_tokens_spent, est)
            THEN /\ call' = NewCall("hard_ok", est)
                 /\ pc' = stage \o "_final_invoke"
                 /\ UNCHANGED entered
            ELSE /\ call' = NewCall("hard_fail", est)
                 /\ ToSingleShot
    /\ UNCHANGED <<fixedInRun, exc, bullets, commit_msg, final_commit_msg, llm_calls, resets,
                   git, chunks, tasks, attempt, waits>>
    /\ UNCHANGED split

\* stage 2, the request is sent (hierarchical line 217, sampled line 160)
FinalInvoke(stage) ==
    /\ pc = stage \o "_final_invoke"
    /\ llm_calls' = llm_calls + 1
    /\ pc' = stage \o "_final_wait"
    /\ UNCHANGED <<_tokens_spent, fixedInRun, exc, bullets, call, commit_msg,
                   final_commit_msg, resets, ledger_used, entered, git, chunks, tasks,
                   attempt, waits>>
    /\ UNCHANGED split

\* stage 2, the answer (hierarchical lines 217-249, sampled lines 160-177): an
\* exception goes to the handler with the reservation kept
FinalComplete(stage) ==
    /\ pc = stage \o "_final_wait"
    /\ \E r \in Responses(Texts(MaxRespLen)) :
         /\ call' = [call EXCEPT !.reply = r]
         /\ IF r.kind = "raise"
              THEN /\ ToSingleShot
                   /\ UNCHANGED <<_tokens_spent, commit_msg>>
              ELSE /\ _tokens_spent' =
                          true_up(call.est, real_spent(FinalPromptTokens(stage), r.text))
                   /\ commit_msg' = IF r.text # <<>> THEN clean_reply(r.text)
                                    ELSE STATIC_MESSAGE
                   /\ pc' = SynthesisReturn
                   /\ UNCHANGED entered
    /\ UNCHANGED <<fixedInRun, exc, bullets, final_commit_msg, llm_calls, resets,
                   ledger_used, git, chunks, tasks, attempt, waits>>
    /\ UNCHANGED split

\* stage 2 is written twice in the source: in hierarchical_commit_message and in
\* sampled_commit_message
Stages == {"hier", "samp"}

\* generate_commit_message_with_retry, lines 258-263: the connectivity check comes first
retry_check_network ==
    /\ pc = "retry_netcheck"
    /\ \E check_network_connectivity \in BOOLEAN :
         pc' = IF check_network_connectivity THEN "retry_reserve" ELSE "fallback"
    /\ attempt' = 0
    /\ UNCHANGED <<_tokens_spent, fixedInRun, exc, bullets, call, commit_msg,
                   final_commit_msg, llm_calls, resets, ledger_used, entered, git, chunks,
                   tasks, waits>>
    /\ UNCHANGED split

\* lines 265-276: one attempt's reservation
retry_reserve ==
    /\ pc = "retry_reserve"
    /\ LET est == FullPromptTokens(chunks) + RetryCompletion IN
       /\ _tokens_spent' = try_reserve_tokens(est)
       /\ ledger_used' = TRUE
       /\ IF Admits(_tokens_spent, est)
            THEN /\ call' = NewCall("hard_ok", est)
                 /\ pc' = "retry_invoke"
            ELSE /\ call' = NewCall("hard_fail", est)
                 /\ pc' = "fallback"
    /\ UNCHANGED <<fixedInRun, exc, bullets, commit_msg, final_commit_msg, llm_calls, resets,
                   entered, git, chunks, tasks, attempt, waits>>
    /\ UNCHANGED split

\* line 278: the request is sent
retry_invoke ==
    /\ pc = "retry_invoke"
    /\ llm_calls' = llm_calls + 1
    /\ pc' = "retry_wait"
    /\ UNCHANGED <<_tokens_spent, fixedInRun, exc, bullets, call, commit_msg,
                   final_commit_msg, resets, ledger_used, entered, git, chunks, tasks,
                   attempt, waits>>
    /\ UNCHANGED split

\* lines 293-302: strip, then remove the code-fence markers
strip_fences(content) ==
    LET commit_msg0 == strip(content)
        starts == commit_msg0 # <<>> /\ Head(commit_msg0) = FENCE
        ends == commit_msg0 # <<>> /\ commit_msg0[Len(commit_msg0)] = FENCE
    IN IF starts /\ ends THEN strip(SubSeq(commit_msg0, 2, Len(commit_msg0) - 1))
       ELSE IF starts THEN strip(Tail(commit_msg0))
       ELSE IF ends THEN strip(SubSeq(commit_msg0, 1, Len(commit_msg0) - 1))
       ELSE commit_msg0

\* lines 311-312: `"connection" in error_str or "timeout" in error_str`, for the text
\* of the exception (used for the printed label only)
is_network_error(error) ==
    \E i \in 1..Len(error) : error[i] \in {"connection", "timeout"}

\* line 320: the exponential backoff, in seconds
wait_time_NoBackoff(n) == 2 ^ 0
wait_time(n) == 2 ^ n

\* lines 278-323: the answer and the true-up; or the exception, the refund, and the
\* backoff or the fallback
retry_complete ==
    /\ pc = "retry_wait"
    /\ \E r \in Responses(Texts(MaxRespLen)) :
         /\ call' = [call EXCEPT !.reply = r]
         /\ IF r.kind = "raise"
              THEN /\ _tokens_spent' = Refunded(_tokens_spent, call.est)
                   /\ IF attempt < max_retries - 1
                        THEN /\ waits' = Append(waits, wait_time(attempt))
                             /\ attempt' = attempt + 1
                             /\ pc' = "retry_reserve"
                        ELSE /\ pc' = "fallback"
                             /\ UNCHANGED <<attempt, waits>>
                   /\ UNCHANGED commit_msg
              ELSE /\ _tokens_spent' =
                          true_up(call.est, real_spent(FullPromptTokens(chunks), r.text))
                   /\ IF r.text # <<>>
                        THEN /\ commit_msg' = strip_fences(r.text)
                             /\ pc' = SynthesisReturn
                        ELSE /\ pc' = "fallback"
                             /\ UNCHANGED commit_msg
                   /\ UNCHANGED <<attempt, waits>>
    /\ UNCHANGED <<fixedInRun, exc, bullets, final_commit_msg, llm_calls, resets,
                   ledger_used, entered, git, chunks, tasks>>
    /\ UNCHANGED split

(***************************************************************************)
(* api_client.py                                                           *)
(***************************************************************************)
\* generate_fallback_commit_message, lines 74-87: the user's text, or the default
generate_fallback_commit_message ==
    /\ pc = "fallback"
    /\ \E user_input \in {<<>>, <<SP>>, <<TXT>>} :
         commit_msg' = IF strip(user_input) # <<>> THEN strip(user_input) ELSE STATIC_MESSAGE
    /\ pc' = SynthesisReturn
    /\ UNCHANGED <<_tokens_spent, fixedInRun, exc, bullets, call, final_commit_msg,
                   llm_calls, resets, ledger_used, entered, git, chunks, tasks, attempt,
                   waits>>
    /\ UNCHANGED split

(***************************************************************************)
(* ai_auto_commit.py: auto_commit_and_push, after synthesis                *)
(***************************************************************************)
\* cli.prompt_for_commit_comment (line 258): an optional comment goes on top
prompt_for_commit_comment(msg, user_comment) ==
    IF strip(user_comment) # <<>> THEN strip(user_comment) \o <<"">> \o msg ELSE msg

acp_prompt_comment ==
    /\ pc = "acp_comment"
    /\ \E user_comment \in {<<>>, <<SP>>, <<TXT>>} :
          final_commit_msg' = prompt_for_commit_comment(commit_msg, user_comment)
    /\ pc' = "acp_commit"
    /\ UNCHANGED <<_tokens_spent, fixedInRun, exc, bullets, call, commit_msg, llm_calls,
                   resets, ledger_used, entered, git>>
    /\ UNCHANGED diffVars

\* line 261: git commit -m final_commit_msg
acp_commit ==
    /\ pc = "acp_commit"
    /\ \/ git' = [git EXCEPT !.committed = TRUE] /\ pc' = "acp_push" /\ UNCHANGED exc
       \/ Raise("CalledProcessError: commit") /\ UNCHANGED git
    /\ UNCHANGED <<_tokens_spent, fixedInRun, bullets, call, commit_msg, final_commit_msg,
                   llm_calls, resets, ledger_used, entered>>
    /\ UNCHANGED diffVars

\* lines 265-281: git push, final verification, cleanup
acp_push ==
    /\ pc = "acp_push"
    /\ \/ git' = [git EXCEPT !.pushed = TRUE] /\ pc' = "returned" /\ UNCHANGED exc
       \/ Raise("CalledProcessError: push") /\ UNCHANGED git
    /\ UNCHANGED <<_tokens_spent, fixedInRun, bullets, call, commit_msg, final_commit_msg,
                   llm_calls, resets, ledger_used, entered>>
    /\ UNCHANGED diffVars

(***************************************************************************)
(* large_diff_handler.py.  A text of this path is the sequence of its      *)
(* lines, each line given by its token count (0: an empty line).           *)
(***************************************************************************)
DEFAULT_CONTEXT_LIMIT == 8000
RESERVED_TOKENS == 2000
DefaultMaxChunkTokens == 4000
BatchIntroTokens == 43
BatchCompletion == 200
CondenseIntroTokens == 32
CondenseCompletion == 150
SummariesHeaderTokens == 518
SummariesCompletion == 256
TruncationNoticeTokens == 12
UpdateFilesTokens == 4

\* a long answer of the model: LongReplyLines lines of LongLineTokens tokens each
LongReplyLines == 5
LongLineTokens == 1000
\* rounds of recursive_summarize followed
MaxRounds == 2

\* the context windows of the models tried: an unknown model (get_model_context_limit,
\* line 128)
ContextLimits == {DEFAULT_CONTEXT_LIMIT}
get_effective_token_limit(context_limit) == context_limit - RESERVED_TOKENS

\* the values of max_chunk_tokens tried: below a big file, between one and two, the default
BatchLimits == {BigChunk \div 2, BigChunk + (BigChunk \div 2), DefaultMaxChunkTokens}

\* reserve_tokens_soft as one step: the new value of _tokens_spent
reserve_tokens_soft_Enforced(needed) == try_reserve_tokens(needed)
reserve_tokens_soft(needed) == _tokens_spent + needed

\* is_over_budget
is_over_budget_AtCeiling(spent) == spent >= _get_max_token_budget
is_over_budget(spent) == spent > _get_max_token_budget

RECURSIVE Sum(_)
Sum(lines) == IF lines = <<>> THEN 0 ELSE Head(lines) + Sum(Tail(lines))

\* the empty string: one empty line
EmptyText == <<0>>

\* "\n\n".join(texts)
RECURSIVE JoinBlank(_)
JoinBlank(texts) ==
    IF texts = <<>> THEN EmptyText
    ELSE IF Len(texts) = 1 THEN texts[1]
    ELSE texts[1] \o <<0>> \o JoinBlank(Tail(texts))

\* text[:n_chars], with four characters to the token
RECURSIVE PrefixLines(_, _)
PrefixLines(lines, n) ==
    IF lines = <<>> \/ n = 0 THEN <<>>
    ELSE IF Head(lines) >= n THEN <<n>>
    ELSE <<Head(lines)>> \o PrefixLines(Tail(lines), n - Head(lines))
PrefixTokens(lines, n) ==
    IF PrefixLines(lines, n) = <<>> THEN EmptyText ELSE PrefixLines(lines, n)

\* the leading lines that lie wholly within the first n tokens
RECURSIVE WholeLines(_, _)
WholeLines(lines, n) ==
    IF lines = <<>> \/ Head(lines) > n THEN <<>>
    ELSE <<Head(lines)>> \o WholeLines(Tail(lines), n - Head(lines))

Reverse(lines) == [i \in 1..Len(lines) |-> lines[Len(lines) + 1 - i]]

\* text[:keep_chars].rsplit("\n", 1)[0]
FirstPart(lines, keep) ==
    IF WholeLines(lines, keep) = <<>> THEN <<keep>> ELSE WholeLines(lines, keep)
\* text[-keep_chars:].split("\n", 1)[-1]
LastPart(lines, keep) ==
    IF WholeLines(Reverse(lines), keep) = <<>> THEN <<keep>>
    ELSE Reverse(WholeLines(Reverse(lines), keep))

\* what the model answers to a summary request: nothing, a line, many lines
SummaryReplies == {"empty", "short", "long"}
ReplyTokens(r) ==
    CASE r = "empty" -> 0
      [] r = "short" -> 2
      [] OTHER -> LongReplyLines * LongLineTokens
\* content.strip()
ReplyStripped(r) ==
    CASE r = "empty" -> EmptyText
      [] r = "short" -> <<2>>
      [] OTHER -> [i \in 1..LongReplyLines |-> LongLineTokens]

\* split_and_summarize_diff, lines 334-359: the batches
RECURSIVE Batches_PendingLost(_, _, _, _)
Batches_PendingLost(cs, current_batch, current_batch_tokens, max_chunk_tokens) ==
    LET flush == IF current_batch # <<>> THEN <<current_batch>> ELSE <<>> IN
    IF cs = <<>> THEN flush
    ELSE LET chunk == Head(cs) IN
         IF chunk.size > max_chunk_tokens
           THEN <<<<chunk>>>> \o Batches_PendingLost(Tail(cs), <<>>, 0, max_chunk_tokens)
         ELSE IF current_batch_tokens + chunk.size <= max_chunk_tokens
           THEN Batches_PendingLost(Tail(cs), Append(current_batch, chunk),
                                    current_batch_tokens + chunk.size, max_chunk_tokens)
         ELSE flush \o Batches_PendingLost(Tail(cs), <<chunk>>, chunk.size, max_chunk_tokens)
RECURSIVE Batches(_, _, _, _)
Batches(cs, current_batch, current_batch_tokens, max_chunk_tokens) ==
    LET flush == IF current_batch # <<>> THEN <<current_batch>> ELSE <<>> IN
    IF cs = <<>> THEN flush
    ELSE LET chunk == Head(cs)
             chunk_tokens == chunk.size
         IN IF chunk_tokens > max_chunk_tokens
              THEN flush \o <<<<chunk>>>> \o Batches(Tail(cs), <<>>, 0, max_chunk_tokens)
            ELSE IF current_batch_tokens + chunk_tokens <= max_chunk_tokens
              THEN Batches(Tail(cs), Append(current_batch, chunk),
                           current_batch_tokens + chunk_tokens, max_chunk_tokens)
            ELSE flush \o Batches(Tail(cs), <<chunk>>, chunk_tokens, max_chunk_tokens)

RECURSIVE Digits(_)
Digits(n) == IF n < 10 THEN 1 ELSE 1 + Digits(n \div 10)
\* the length of f"{n:,}"
CommaDigits(n) == Digits(n) + ((Digits(n) - 1) \div 3)

\* truncate_diff_to_limit, lines 265-282: the chunks kept, in tokens and in number;
\* cut: the tokens dropped when the partial chunk is cut back to its last newline
RECURSIVE KeepChunks(_, _, _, _)
KeepChunks(cs, total_tokens, available_tokens, cut) ==
    IF cs = <<>> THEN [tokens |-> total_tokens, files |-> 0]
    ELSE IF total_tokens + Head(cs).size <= available_tokens
      THEN LET k == KeepChunks(Tail(cs), total_tokens + Head(cs).size, available_tokens, cut)
           IN [tokens |-> k.tokens, files |-> k.files + 1]
    ELSE LET remaining_tokens == available_tokens - total_tokens
         IN IF remaining_tokens > 100
              THEN [tokens |-> total_tokens + remaining_tokens - cut, files |-> 1]
              ELSE [tokens |-> total_tokens, files |-> 0]

\* truncate_diff_to_limit, lines 265-282: truncated_chunks, each with its tokens; the
\* partial chunk is chunk[:remaining_tokens * 4], cut back to its last newline
RECURSIVE truncated_chunks_SkipAndGoOn(_, _, _, _)
truncated_chunks_SkipAndGoOn(cs, total_tokens, available_tokens, cut) ==
    IF cs = <<>> THEN <<>>
    ELSE IF total_tokens + Head(cs).size <= available_tokens
      THEN <<Head(cs)>> \o truncated_chunks_SkipAndGoOn(Tail(cs), total_tokens + Head(cs).size,
                                                         available_tokens, cut)
    ELSE truncated_chunks_SkipAndGoOn(Tail(cs), total_tokens, available_tokens, cut)
RECURSIVE truncated_chunks(_, _, _, _)
truncated_chunks(cs, total_tokens, available_tokens, cut) ==
    IF cs = <<>> THEN <<>>
    ELSE IF total_tokens + Head(cs).size <= available_tokens
      THEN <<Head(cs)>> \o truncated_chunks(Tail(cs), total_tokens + Head(cs).size,
                                             available_tokens, cut)
    ELSE LET remaining_tokens == available_tokens - total_tokens
         IN IF remaining_tokens > 100
              THEN <<[file |-> Head(cs).file, size |-> remaining_tokens - cut]>>
              ELSE <<>>

\* truncate_diff_to_limit: the token count of what it returns
truncate_diff_to_limit(cs, token_limit, cut) ==
    LET current_tokens == SumSizes(cs)
        kept == KeepChunks(cs, 0, token_limit - TruncationNoticeTokens, cut)
        notice_chars == 31 + Digits(kept.files) + 1 + Digits(Len(cs)) + 8
                           + CommaDigits(kept.tokens) + 1 + CommaDigits(current_tokens) + 13
    IN IF current_tokens <= token_limit THEN current_tokens
       ELSE kept.tokens + ((notice_chars + 3) \div 4)

\* summarize_batch, line 408: "- Update " and at most five of the paths "b/f<i>"
UpdateFilesLine(batch) ==
    LET shown == Min(Len(batch), 5)
        chars == 9 + 4 * shown + 2 * (shown - 1) + (IF Len(batch) > 5 THEN 3 ELSE 0)
    IN <<(chars + 3) \div 4>>

\* recursive_summarize, lines 469-476: groups of chunk_size lines, blank groups left out
RECURSIVE Groups(_, _)
Groups(lines, chunk_size) ==
    IF lines = <<>> THEN <<>>
    ELSE LET g == SubSeq(lines, 1, Min(chunk_size, Len(lines)))
             rest == SubSeq(lines, Len(g) + 1, Len(lines))
         IN (IF Sum(g) > 0 THEN <<g>> ELSE <<>>) \o Groups(rest, chunk_size)
recursive_chunks(text) == Groups(text, Max(10, Len(text) \div 4))

\* _commit_message_from_summaries: at most 25 non-blank lines, at most 1200 characters
NonBlank(lines) == SelectSeq(lines, LAMBDA t : t > 0)
_commit_message_from_summaries_BodyOnly(summaries) ==
    [i \in 1..Len(NonBlank(summaries)) |->
        ToString(NonBlank(summaries)[i]) \o " tokens of summary"]
_commit_message_from_summaries(summaries) ==
    LET lines == SubSeq(NonBlank(summaries), 1, Min(25, Len(NonBlank(summaries))))
        body == IF Sum(lines) > 300 THEN FirstPart(lines, 299) ELSE lines
        dots == IF Sum(lines) > 300 THEN <<"...">> ELSE <<>>
    IN IF lines = <<>>
         THEN <<"chore: update multiple files", "",
                "Various updates and improvements across the codebase.">>
         ELSE <<"chore: batch updates from summaries", "">>
                \o [i \in 1..Len(body) |-> ToString(body[i]) \o " tokens of summary"] \o dots

\* generate_final_commit_from_summaries, lines 559-567: the summaries that go in the prompt
max_summary_tokens(context_limit) ==
    Max(500, get_effective_token_limit(context_limit) - SummariesHeaderTokens
                 - SummariesCompletion - 500)
prompt_summaries(summaries, context_limit) ==
    LET keep == max_summary_tokens(context_limit) \div 2 IN
    IF Sum(summaries) > max_summary_tokens(context_limit)
      THEN FirstPart(summaries, keep) \o <<0, 2, 0>> \o LastPart(summaries, keep)
      ELSE summaries

\* the diffs split_and_summarize_diff is called with: any, or the one handle_large_diff
\* hands on
DiffsAtSplit == IF entry = "handle_large_diff" THEN {chunks} ELSE ChunkLists

\* split_and_summarize_diff, lines 330-361: split by file, group into batches
split_start ==
    /\ pc = "split_start"
    /\ \E cs \in DiffsAtSplit, m \in BatchLimits, cl \in ContextLimits :
         /\ chunks' = cs
         /\ tasks' = NewTasks(Batches(cs, <<>>, 0, m))
         /\ split' = [NoSplit EXCEPT !.max_chunk_tokens = m, !.context_limit = cl]
    /\ pc' = "split_pool"
    /\ entered' = entered \cup {"split_and_summarize_diff"}
    /\ UNCHANGED <<_tokens_spent, fixedInRun, exc, bullets, call, commit_msg,
                   final_commit_msg, llm_calls, resets, ledger_used, git, attempt, waits>>

\* summarize_batch, lines 368-383: the prompt, truncated if need be, and the soft
\* reservation
summarize_batch_reserve(i) ==
    /\ pc = "split_pool"
    /\ tasks[i].pc = "reserve"
    /\ \E cut \in 0..1 :
         LET est_prompt == BatchIntroTokens
                 + truncate_diff_to_limit(tasks[i].chunk, split.max_chunk_tokens, cut)
             est == est_prompt + BatchCompletion
         IN /\ _tokens_spent' = reserve_tokens_soft(est)
            /\ tasks' = [tasks EXCEPT ![i].pc = "invoke", ![i].est = est, ![i].resv = "soft"]
    /\ ledger_used' = TRUE
    /\ UNCHANGED <<fixedInRun, pc, exc, bullets, call, commit_msg, final_commit_msg,
                   llm_calls, resets, entered, git, chunks, attempt, waits, split>>

\* summarize_batch, line 386: the request is sent
summarize_batch_invoke(i) ==
    /\ pc = "split_pool"
    /\ tasks[i].pc = "invoke"
    /\ llm_calls' = llm_calls + 1
    /\ tasks' = [tasks EXCEPT ![i].pc = "wait"]
    /\ UNCHANGED <<_tokens_spent, fixedInRun, pc, exc, bullets, call, commit_msg,
                   final_commit_msg, resets, ledger_used, entered, git, chunks, attempt,
                   waits, split>>

\* summarize_batch, lines 386-408: the answer and the true-up, or the exception, the
\* refund and the local line
summarize_batch_complete(i) ==
    /\ pc = "split_pool"
    /\ tasks[i].pc = "wait"
    /\ \E r \in SummaryReplies \cup {"raise"} :
         IF r = "raise"
           THEN /\ _tokens_spent' = Refunded(_tokens_spent, tasks[i].est)
                /\ tasks' = [tasks EXCEPT ![i].pc = "done",
                                          ![i].bullet = UpdateFilesLine(tasks[i].chunk)]
                /\ split' = [split EXCEPT !.failed = @ \cup {i}]
           ELSE /\ _tokens_spent' =
                      true_up(tasks[i].est,
                              real_spent(tasks[i].est - BatchCompletion, <<>>) + ReplyTokens(r))
                /\ tasks' = [tasks EXCEPT ![i].pc = "done",
                                          ![i].bullet = IF r = "empty" THEN <<UpdateFilesTokens>>
                                                        ELSE ReplyStripped(r)]
                /\ UNCHANGED split
    /\ UNCHANGED <<fixedInRun, pc, exc, bullets, call, commit_msg, final_commit_msg,
                   llm_calls, resets, ledger_used, entered, git, chunks, attempt, waits>>

\* split_and_summarize_diff, lines 416-430: join the summaries; condense them if they
\* are over the limit
split_combine ==
    /\ pc = "split_pool"
    /\ AllDone
    /\ LET combined_summaries == JoinBlank([i \in 1..Len(tasks) |-> tasks[i].bullet])
           effective_limit == get_effective_token_limit(split.context_limit)
       IN IF Sum(combined_summaries) > effective_limit - 500
            THEN /\ split' = [split EXCEPT !.summaries = combined_summaries,
                                           !.queue = recursive_chunks(combined_summaries),
                                           !.out = <<>>, !.round = 1]
                 /\ pc' = "rec_reserve"
                 /\ entered' = entered \cup {"recursive_summarize"}
            ELSE /\ split' = [split EXCEPT !.summaries = combined_summaries]
                 /\ pc' = "gen_reserve"
                 /\ entered' = entered \cup {"generate_final_commit_from_summaries"}
    /\ UNCHANGED <<_tokens_spent, fixedInRun, exc, bullets, call, commit_msg,
                   final_commit_msg, llm_calls, resets, ledger_used, git, chunks, tasks,
                   attempt, waits>>

\* recursive_summarize, lines 480-489: the next chunk's prompt and soft reservation
recursive_summarize_reserve ==
    /\ pc = "rec_reserve"
    /\ LET est == CondenseIntroTokens + Sum(Head(split.queue)) + CondenseCompletion IN
       /\ _tokens_spent' = reserve_tokens_soft(est)
       /\ call' = NewCall("soft", est)
    /\ ledger_used' = TRUE
    /\ pc' = "rec_invoke"
    /\ UNCHANGED <<fixedInRun, exc, bullets, commit_msg, final_commit_msg, llm_calls, resets,
                   entered, git, chunks, tasks, attempt, waits, split>>

\* recursive_summarize, line 492: the request is sent
recursive_summarize_invoke ==
    /\ pc = "rec_invoke"
    /\ llm_calls' = llm_calls + 1
    /\ pc' = "rec_wait"
    /\ UNCHANGED <<_tokens_spent, fixedInRun, exc, bullets, call, commit_msg,
                   final_commit_msg, resets, ledger_used, entered, git, chunks, tasks,
                   attempt, waits, split>>

\* recursive_summarize, lines 492-515: the condensed chunk; after the last chunk, another
\* round if the result is still over the target (at most MaxRounds rounds are followed)
recursive_summarize_complete ==
    /\ pc = "rec_wait"
    /\ \E r \in SummaryReplies \cup {"raise"} :
         LET chunk == Head(split.queue)
             piece == CASE r = "raise" -> SubSeq(chunk, 1, Min(3, Len(chunk)))
                        [] r = "empty" -> PrefixTokens(chunk, 50)
                        [] OTHER -> ReplyStripped(r)
             summarized_chunks == Append(split.out, piece)
             combined == JoinBlank(summarized_chunks)
             target_tokens == get_effective_token_limit(split.context_limit) - 500
         IN /\ _tokens_spent' =
                   IF r = "raise" THEN Refunded(_tokens_spent, call.est)
                   ELSE true_up(call.est,
                                real_spent(call.est - CondenseCompletion, <<>>) + ReplyTokens(r))
            /\ IF Tail(split.queue) # <<>>
                 THEN /\ split' = [split EXCEPT !.queue = Tail(@), !.out = summarized_chunks]
                      /\ pc' = "rec_reserve"
                      /\ UNCHANGED entered
               ELSE IF Sum(combined) > target_tokens
                 THEN /\ split.round < MaxRounds
                      /\ split' = [split EXCEPT !.summaries = combined,
                                                !.queue = recursive_chunks(combined),
                                                !.out = <<>>, !.round = @ + 1]
                      /\ pc' = "rec_reserve"
                      /\ UNCHANGED entered
               ELSE /\ split' = [split EXCEPT !.summaries = combined, !.queue = <<>>,
                                              !.out = <<>>]
                    /\ pc' = "gen_reserve"
                    /\ entered' = entered \cup {"generate_final_commit_from_summaries"}
    /\ UNCHANGED <<fixedInRun, exc, bullets, call, commit_msg, final_commit_msg, llm_calls,
                   resets, ledger_used, git, chunks, tasks, attempt, waits>>

\* generate_final_commit_from_summaries, lines 551-572: the prompt and the soft reservation
generate_final_reserve ==
    /\ pc = "gen_reserve"
    /\ LET summaries == prompt_summaries(split.summaries, split.context_limit)
           est == SummariesHeaderTokens + Sum(summaries) + SummariesCompletion
       IN /\ split' = [split EXCEPT !.summaries = summaries]
          /\ _tokens_spent' = reserve_tokens_soft(est)
          /\ call' = NewCall("soft", est)
    /\ ledger_used' = TRUE
    /\ pc' = "gen_invoke"
    /\ UNCHANGED <<fixedInRun, exc, bullets, commit_msg, final_commit_msg, llm_calls, resets,
                   entered, git, chunks, tasks, attempt, waits>>

\* line 575: the request is sent
generate_final_invoke ==
    /\ pc = "gen_invoke"
    /\ llm_calls' = llm_calls + 1
    /\ pc' = "gen_wait"
    /\ UNCHANGED <<_tokens_spent, fixedInRun, exc, bullets, call, commit_msg,
                   final_commit_msg, resets, ledger_used, entered, git, chunks, tasks,
                   attempt, waits, split>>

\* lines 575-595, and split_and_summarize_diff lines 431-435: the message, the true-up
\* or the refund, and the warning when the ledger is over the ceiling
generate_final_complete ==
    /\ pc = "gen_wait"
    /\ \E r \in Responses(Texts(MaxRespLen)) :
         /\ _tokens_spent' =
               IF r.kind = "raise" THEN Refunded(_tokens_spent, call.est)
               ELSE true_up(call.est, real_spent(call.est - SummariesCompletion, r.text))
         /\ commit_msg' =
               IF r.kind = "ok" /\ r.text # <<>> THEN clean_reply(r.text)
               ELSE _commit_message_from_summaries(split.summaries)
         /\ split' = [split EXCEPT !.warned = is_over_budget(_tokens_spent'),
                                   !.reply = CASE r.kind = "raise" -> "raise"
                                               [] r.text = <<>> -> "empty"
                                               [] OTHER -> "text"]
    /\ pc' = SynthesisReturn
    /\ UNCHANGED <<fixedInRun, exc, bullets, call, final_commit_msg, llm_calls, resets,
                   ledger_used, entered, git, chunks, tasks, attempt, waits>>

\* a run of auto_commit_and_push in a process that may have used the ledger before, or
\* a call of one of the other entry points in a fresh process (the retry controller is
\* handed the header and a diff as its prompt)
Init ==
    /\ entry \in {"auto_commit_and_push", "hierarchical_commit_message",
                 "generate_commit_message_with_retry", "split_and_summarize_diff"}
    /\ _tokens_spent \in (IF entry = "auto_commit_and_push" THEN 0..MaxLeftover ELSE {0})
    /\ _budget_lock = NoThread
    /\ token_budget \in Ceilings
    /\ thr = [t \in Threads |-> IdleThread("None")]
    /\ pc = CASE entry = "auto_commit_and_push" -> "acp_start"
               [] entry = "hierarchical_commit_message" -> "hier_start"
               [] entry = "generate_commit_message_with_retry" -> "retry_netcheck"
               [] OTHER -> "split_start"
    /\ exc = "none"
    /\ bullets = <<>>
    /\ call = NoCall
    /\ commit_msg = NoMsg
    /\ final_commit_msg = NoMsg
    /\ llm_calls = 0
    /\ resets = 0
    /\ ledger_used = FALSE
    /\ entered = (IF entry = "generate_commit_message_with_retry" THEN {entry} ELSE {})
    /\ git = [committed |-> FALSE, pushed |-> FALSE]
    /\ chunks \in (IF entry = "generate_commit_message_with_retry" THEN ChunkLists
                   ELSE {<<>>})
    /\ tasks = <<>>
    /\ attempt = 0
    /\ waits = <<>>
    /\ split = NoSplit
    /\ fn = NoFn

Next ==
    \/ acp_status_check
    \/ acp_reset_budget
    \/ acp_check_staged
    \/ acp_build_bullets
    \/ compose_reserve
    \/ compose_invoke
    \/ compose_complete
    \/ smart_start
    \/ hier_start
    \/ \E i \in 1..Len(tasks) : pool_start(i)
    \/ \E i \in 1..Len(tasks) : summarise_file_diff_reserve(i)
    \/ \E i \in 1..Len(tasks) : summarise_file_diff_invoke(i)
    \/ \E i \in 1..Len(tasks) : summarise_file_diff_complete(i)
    \/ \E stage \in Stages : FinalReserve(stage)
    \/ \E stage \in Stages : FinalInvoke(stage)
    \/ \E stage \in Stages : FinalComplete(stage)
    \/ retry_check_network
    \/ retry_reserve
    \/ retry_invoke
    \/ retry_complete
    \/ generate_fallback_commit_message
    \/ split_start
    \/ \E i \in 1..Len(tasks) : summarize_batch_reserve(i)
    \/ \E i \in 1..Len(tasks) : summarize_batch_invoke(i)
    \/ \E i \in 1..Len(tasks) : summarize_batch_complete(i)
    \/ split_combine
    \/ recursive_summarize_reserve
    \/ recursive_summarize_invoke
    \/ recursive_summarize_complete
    \/ generate_final_reserve
    \/ generate_final_invoke
    \/ generate_final_complete
    \/ acp_prompt_comment
    \/ acp_commit
    \/ acp_push

Spec == Init /\ [][Next]_vars

(***************************************************************************)
(* The ledger as the split path uses it: threads call reserve_tokens_soft, *)
(* refund_tokens and is_over_budget.                                       *)
(***************************************************************************)
\* soft reservations are called while spent is below MaxSoftSpent
MaxSoftSpent == 4

\* a thread calls reserve_tokens_soft, refund_tokens or is_over_budget and reaches its
\* `with _budget_lock:`
LedgerCallSoft(t) ==
    /\ thr[t].pc = "idle"
    /\ \/ /\ _tokens_spent < MaxSoftSpent
          /\ \E n \in Amounts :
                thr' = [thr EXCEPT ![t] = [pc |-> "wait", op |-> "reserve_soft", n |-> n,
                                           ret |-> "none"]]
       \/ \E n \in Amounts :
             thr' = [thr EXCEPT ![t] = [pc |-> "wait", op |-> "refund", n |-> n,
                                        ret |-> "none"]]
       \/ thr' = [thr EXCEPT ![t] = [pc |-> "wait", op |-> "over_budget", n |-> 0,
                                     ret |-> "none"]]
    /\ UNCHANGED <<_tokens_spent, _budget_lock, token_budget>>
    /\ UNCHANGED runVars

\* reserve_tokens_soft, lines 51-53: add, return True
reserve_tokens_soft_body(t) ==
    /\ thr[t].pc = "locked" /\ thr[t].op = "reserve_soft"
    /\ _tokens_spent' = reserve_tokens_soft(thr[t].n)
    /\ thr' = [thr EXCEPT ![t] = Returned(t, "True")]
    /\ _budget_lock' = NoThread
    /\ UNCHANGED token_budget
    /\ UNCHANGED runVars

\* is_over_budget, lines 58-59: read the ceiling, compare, return
is_over_budget_body(t) ==
    /\ thr[t].pc = "locked" /\ thr[t].op = "over_budget"
    /\ thr' = [thr EXCEPT ![t] = Returned(t, IF is_over_budget(_tokens_spent) THEN "True"
                                             ELSE "False")]
    /\ _budget_lock' = NoThread
    /\ UNCHANGED <<_tokens_spent, token_budget>>
    /\ UNCHANGED runVars

NextSoft ==
    \E t \in Threads :
        \/ LedgerCallSoft(t)
        \/ LedgerAcquire(t)
        \/ reserve_tokens_soft_body(t)
        \/ is_over_budget_body(t)
        \/ refund_tokens_body(t)

SpecSoft == InitLedger /\ [][NextSoft]_vars

(***************************************************************************)
(* The ledger of one run while the persisted setting is changed            *)
(* (SpecConfig): threads call try_reserve_tokens, refund_tokens and        *)
(* is_over_budget, and another process stores a new token budget with      *)
(* models.set_token_budget (the command `config token-budget`).            *)
(***************************************************************************)
\* the persisted setting when the ledger of the run was reset
CeilingAtReset == 2

\* a thread calls try_reserve_tokens, refund_tokens or is_over_budget and reaches its
\* `with _budget_lock:`
LedgerCallRun(t) ==
    /\ thr[t].pc = "idle"
    /\ \E op \in {"reserve", "refund", "over_budget"} :
         \E n \in (IF op = "over_budget" THEN {0} ELSE Amounts) :
            thr' = [thr EXCEPT ![t] = [pc |-> "wait", op |-> op, n |-> n, ret |-> "none"]]
    /\ UNCHANGED <<_tokens_spent, _budget_lock, token_budget>>
    /\ UNCHANGED runVars

\* models.set_token_budget, lines 446-451: a positive budget replaces the stored one
set_token_budget ==
    /\ \E budget \in 1..MaxCeiling :
          /\ budget # token_budget
          /\ token_budget' = budget
    /\ UNCHANGED <<_tokens_spent, _budget_lock, thr>>
    /\ UNCHANGED runVars

InitConfig ==
    /\ InitLedger
    /\ token_budget = CeilingAtReset

NextConfig ==
    \/ \E t \in Threads :
          \/ LedgerCallRun(t)
          \/ LedgerAcquire(t)
          \/ try_reserve_tokens_check(t)
          \/ try_reserve_tokens_add(t)
          \/ refund_tokens_body(t)
          \/ is_over_budget_body(t)
    \/ set_token_budget

SpecConfig == InitConfig /\ [][NextConfig]_vars

(***************************************************************************)
(* The functions of the diff handling applied on their own: the call and   *)
(* its arguments are chosen at the start, one step applies the function.   *)
(***************************************************************************)
\* the ceilings tried for estimate_stage1_budget are 0..MaxFnCeiling
MaxFnCeiling == 300
\* the diffs tried for it have up to MaxEstimateChunks files
MaxEstimateChunks == 11

\* diffs of n files of one token each, but for one file of BigChunk tokens at position
\* big (0: no such file)
EstimateChunkLists ==
    {[i \in 1..n |-> [file |-> i, size |-> IF i = big THEN BigChunk ELSE 1]] :
        n \in 1..MaxEstimateChunks, big \in 0..MaxEstimateChunks}

EstimateCalls ==
    {[name |-> "estimate_stage1_budget", chunks |-> cs, done |-> FALSE, result |-> 0] :
        cs \in EstimateChunkLists}

\* the diffs tried for the other functions: up to MaxFnChunks files of 1..MaxFnSize
\* tokens; the limits tried: 0..MaxFnLimit
MaxFnChunks == 4
MaxFnSize == 3
MaxFnLimit == 4
FnChunkLists ==
    UNION {{[i \in 1..k |-> [file |-> i, size |-> f[i]]] : f \in [1..k -> 1..MaxFnSize]} :
              k \in 0..MaxFnChunks}

BatchCalls ==
    {[name |-> "batches", chunks |-> cs, max_chunk_tokens |-> m, done |-> FALSE,
      result |-> <<>>] : cs \in FnChunkLists, m \in 0..MaxFnLimit}

\* a diff as a string of characters, for split_diff_by_file: the marker "diff --git " is
\* written as its first and its last character (like the marker, no proper prefix of
\* this string is also a suffix of it)
MaxDiffLen == 6
CHUNK_HEADER == <<"d", " ">>
DiffChars == {"d", " ", "x"}
DiffStrings == UNION {[1..n -> DiffChars] : n \in 0..MaxDiffLen}

startswith(s, prefix) == Len(s) >= Len(prefix) /\ SubSeq(s, 1, Len(prefix)) = prefix

\* str.split(sep): the pieces between the occurrences of sep, found from the left
RECURSIVE str_split(_, _, _)
str_split(s, sep, piece) ==
    IF s = <<>> THEN <<piece>>
    ELSE IF startswith(s, sep)
      THEN <<piece>> \o str_split(SubSeq(s, Len(sep) + 1, Len(s)), sep, <<>>)
    ELSE str_split(Tail(s), sep, Append(piece, Head(s)))

\* commit_generation.split_diff_by_file
split_diff_by_file_AllParts(diff) ==
    LET parts == str_split(diff, CHUNK_HEADER, <<>>)
    IN [i \in 1..Len(parts) |-> CHUNK_HEADER \o parts[i]]
split_diff_by_file(diff) ==
    LET parts == str_split(diff, CHUNK_HEADER, <<>>)
    IN [i \in 1..(Len(parts) - 1) |-> CHUNK_HEADER \o parts[i + 1]]

SplitCalls ==
    {[name |-> "split_diff_by_file", diff |-> d, done |-> FALSE, result |-> <<>>] :
        d \in DiffStrings}

\* the limits tried for truncate_diff_to_limit are 0..MaxTruncateLimit; the diffs are
\* those of the run; MaxCut tokens at most are lost to the newline search
MaxTruncateLimit == 1200
MaxCut == 1
TruncateCalls ==
    {[name |-> "truncate_diff_to_limit", chunks |-> cs, token_limit |-> l, cut |-> c,
      done |-> FALSE, result |-> <<>>] :
        cs \in ChunkLists, l \in 0..MaxTruncateLimit, c \in 0..MaxCut}

\* MODEL_CONTEXT_LIMITS, lines 30-73, in the order of the source; a name is the
\* sequence of its characters
MODEL_CONTEXT_LIMITS ==
    <<[name |-> <<"g", "p", "t", "-", "4", "o">>,
       limit |-> 128000],
      [name |-> <<"g", "p", "t", "-", "4", "o", "-", "m", "i", "n", "i">>,
       limit |-> 128000],
      [name |-> <<"g", "p", "t", "-", "4", "-", "t", "u", "r", "b", "o">>,
       limit |-> 128000],
      [name |-> <<"g", "p", "t", "-", "4">>,
       limit |-> 8192],
      [name |-> <<"g", "p", "t", "-", "3", ".", "5", "-", "t", "u", "r", "b", "o">>,
       limit |-> 16385],
      [name |-> <<"o", "1">>,
       limit |-> 200000],
      [name |-> <<"o", "1", "-", "m", "i", "n", "i">>,
       limit |-> 128000],
      [name |-> <<"o", "1", "-", "p", "r", "e", "v", "i", "e", "w">>,
       limit |-> 128000],
      [name |-> <<"o", "3", "-", "m", "i", "n", "i">>,
       limit |-> 200000],
      [name |-> <<"c", "l", "a", "u", "d", "e", "-", "3", "-", "5", "-", "s", "o", "n", "n", "e", "t", "-", "2", "0", "2", "4", "1", "0", "2", "2">>,
       limit |-> 200000],
      [name |-> <<"c", "l", "a", "u", "d", "e", "-", "3", "-", "5", "-", "h", "a", "i", "k", "u", "-", "2", "0", "2", "4", "1", "0", "2", "2">>,
       limit |-> 200000],
      [name |-> <<"c", "l", "a", "u", "d", "e", "-", "3", "-", "o", "p", "u", "s", "-", "2", "0", "2", "4", "0", "2", "2", "9">>,
       limit |-> 200000],
      [name |-> <<"c", "l", "a", "u", "d", "e", "-", "3", "-", "s", "o", "n", "n", "e", "t", "-", "2", "0", "2", "4", "0", "2", "2", "9">>,
       limit |-> 200000],
      [name |-> <<"c", "l", "a", "u", "d", "e", "-", "3", "-", "h", "a", "i", "k", "u", "-", "2", "0", "2", "4", "0", "3", "0", "7">>,
       limit |-> 200000],
      [name |-> <<"g", "e", "m", "i", "n", "i", "-", "p", "r", "o">>,
       limit |-> 32000],
      [name |-> <<"g", "e", "m", "i", "n", "i", "-", "1", ".", "5", "-", "p", "r", "o">>,
       limit |-> 1000000],
      [name |-> <<"g", "e", "m", "i", "n", "i", "-", "1", ".", "5", "-", "f", "l", "a", "s", "h">>,
       limit |-> 1000000],
      [name |-> <<"g", "e", "m", "i", "n", "i", "-", "2", ".", "0", "-", "f", "l", "a", "s", "h">>,
       limit |-> 1000000],
      [name |-> <<"g", "e", "m", "i", "n", "i", "-", "3", "-", "f", "l", "a", "s", "h", "-", "p", "r", "e", "v", "i", "e", "w">>,
       limit |-> 1000000],
      [name |-> <<"m", "i", "s", "t", "r", "a", "l", "-", "l", "a", "r", "g", "e">>,
       limit |-> 128000],
      [name |-> <<"m", "i", "s", "t", "r", "a", "l", "-", "m", "e", "d", "i", "u", "m">>,
       limit |-> 32000],
      [name |-> <<"m", "i", "s", "t", "r", "a", "l", "-", "s", "m", "a", "l", "l">>,
       limit |-> 32000],
      [name |-> <<"c", "o", "d", "e", "s", "t", "r", "a", "l">>,
       limit |-> 32000],
      [name |-> <<"d", "e", "v", "s", "t", "r", "a", "l">>,
       limit |-> 128000],
      [name |-> <<"d", "e", "e", "p", "s", "e", "e", "k", "-", "c", "h", "a", "t">>,
       limit |-> 64000],
      [name |-> <<"d", "e", "e", "p", "s", "e", "e", "k", "-", "c", "o", "d", "e", "r">>,
       limit |-> 64000],
      [name |-> <<"g", "r", "o", "k", "-", "2">>,
       limit |-> 128000],
      [name |-> <<"l", "l", "a", "m", "a", "-", "3", "-", "7", "0", "b">>,
       limit |-> 8192],
      [name |-> <<"l", "l", "a", "m", "a", "-", "3", "-", "8", "b">>,
       limit |-> 8192],
      [name |-> <<"l", "l", "a", "m", "a", "-", "3", ".", "1", "-", "4", "0", "5", "b">>,
       limit |-> 128000],
      [name |-> <<"l", "l", "a", "m", "a", "-", "3", ".", "1", "-", "7", "0", "b">>,
       limit |-> 128000],
      [name |-> <<"q", "w", "e", "n", "-", "t", "u", "r", "b", "o">>,
       limit |-> 8000],
      [name |-> <<"q", "w", "e", "n", "-", "p", "l", "u", "s">>,
       limit |-> 32000],
      [name |-> <<"q", "w", "e", "n", "-", "m", "a", "x">>,
       limit |-> 32000]>>
\* the name fragments of the family inference, lines 107-126, in the order tested
FAMILY_LIMITS ==
    <<[name |-> <<"g", "p", "t", "-", "4">>, limit |-> 128000],
      [name |-> <<"g", "p", "t", "-", "3">>, limit |-> 16385],
      [name |-> <<"c", "l", "a", "u", "d", "e">>, limit |-> 200000],
      [name |-> <<"g", "e", "m", "i", "n", "i">>, limit |-> 32000],
      [name |-> <<"m", "i", "s", "t", "r", "a", "l">>, limit |-> 32000],
      [name |-> <<"d", "e", "e", "p", "s", "e", "e", "k">>, limit |-> 64000],
      [name |-> <<"g", "r", "o", "k">>, limit |-> 128000],
      [name |-> <<"l", "l", "a", "m", "a">>, limit |-> 8192],
      [name |-> <<"q", "w", "e", "n">>, limit |-> 8000]>>
\* the names tried besides those of the table: versioned, prefixed, upper-case, of a
\* known family only, unknown, empty
OtherModelNames ==
    {<<"g", "p", "t", "-", "4", "o", "-", "2", "0", "2", "4">>,
     <<"G", "P", "T", "-", "4", "o">>,
     <<"g", "p", "t", "-", "4", "-", "0", "6", "1", "3">>,
     <<"m", "y", "-", "g", "p", "t", "-", "4", "-", "f", "t">>,
     <<"g", "p", "t", "-", "4", ".", "1">>,
     <<"g", "p", "t", "-", "5">>,
     <<"g", "p", "t", "-", "3", ".", "5">>,
     <<"o", "1", "-", "m", "i", "n", "i", "-", "2", "0", "2", "4">>,
     <<"c", "l", "a", "u", "d", "e", "-", "3", "-", "5", "-", "s", "o", "n", "n", "e", "t">>,
     <<"C", "l", "a", "u", "d", "e", "-", "O", "p", "u", "s">>,
     <<"u", "n", "k", "n", "o", "w", "n", "-", "m", "o", "d", "e", "l">>,
     <<"g", "e", "m", "i", "n", "i", "-", "2", ".", "5", "-", "p", "r", "o">>,
     <<"m", "i", "s", "t", "r", "a", "l", "-", "7", "b">>,
     <<"d", "e", "e", "p", "s", "e", "e", "k", "-", "r", "1">>,
     <<"g", "r", "o", "k", "-", "3">>,
     <<"l", "l", "a", "m", "a", "-", "4">>,
     <<"q", "w", "e", "n", "3">>,
     <<>>,
     <<"O", "1">>,
     <<"x", "-", "o", "1">>}

UpperCase ==
    <<"A", "B", "C", "D", "E", "F", "G", "H", "I", "J", "K", "L", "M", "N", "O", "P",
      "Q", "R", "S", "T", "U", "V", "W", "X", "Y", "Z">>
LowerCase ==
    <<"a", "b", "c", "d", "e", "f", "g", "h", "i", "j", "k", "l", "m", "n", "o", "p",
      "q", "r", "s", "t", "u", "v", "w", "x", "y", "z">>
\* str.lower()
lower(s) ==
    [i \in 1..Len(s) |->
        IF \E k \in 1..Len(UpperCase) : UpperCase[k] = s[i]
          THEN LowerCase[CHOOSE k \in 1..Len(UpperCase) : UpperCase[k] = s[i]]
          ELSE s[i]]
\* `sub in s`
contains(s, sub) ==
    \E i \in 1..(Len(s) + 1) :
        i + Len(sub) - 1 <= Len(s) /\ SubSeq(s, i, i + Len(sub) - 1) = sub
\* the first entry of a table that satisfies Hit
FirstHit(table, Hit(_)) ==
    table[CHOOSE i \in 1..Len(table) : Hit(table[i]) /\ \A j \in 1..(i - 1) : ~Hit(table[j])]
AnyHit(table, Hit(_)) == \E i \in 1..Len(table) : Hit(table[i])

\* get_model_context_limit, lines 82-128
get_model_context_limit_NoExactMatch(model_name) ==
    LET model_lower == lower(model_name)
        Known(e) == startswith(model_lower, lower(e.name)) \/ contains(model_lower, lower(e.name))
        Family(e) == contains(model_lower, e.name)
    IN IF AnyHit(MODEL_CONTEXT_LIMITS, Known) THEN FirstHit(MODEL_CONTEXT_LIMITS, Known).limit
       ELSE IF AnyHit(FAMILY_LIMITS, Family) THEN FirstHit(FAMILY_LIMITS, Family).limit
       ELSE DEFAULT_CONTEXT_LIMIT
get_model_context_limit(model_name) ==
    LET model_lower == lower(model_name)
        Exact(e) == e.name = model_name
        Known(e) == startswith(model_lower, lower(e.name)) \/ contains(model_lower, lower(e.name))
        Family(e) == contains(model_lower, e.name)
    IN IF AnyHit(MODEL_CONTEXT_LIMITS, Exact) THEN FirstHit(MODEL_CONTEXT_LIMITS, Exact).limit
       ELSE IF AnyHit(MODEL_CONTEXT_LIMITS, Known)
         THEN FirstHit(MODEL_CONTEXT_LIMITS, Known).limit
       ELSE IF AnyHit(FAMILY_LIMITS, Family) THEN FirstHit(FAMILY_LIMITS, Family).limit
       ELSE DEFAULT_CONTEXT_LIMIT

ContextLimitCalls ==
    {[name |-> "get_model_context_limit", model_name |-> n, done |-> FALSE, result |-> 0] :
        n \in {MODEL_CONTEXT_LIMITS[i].name : i \in 1..Len(MODEL_CONTEXT_LIMITS)}
                  \cup OtherModelNames}

ModelNames ==
    {MODEL_CONTEXT_LIMITS[i].name : i \in 1..Len(MODEL_CONTEXT_LIMITS)} \cup OtherModelNames

\* check_diff_exceeds_limit, lines 169-176, on a diff of diff_tokens tokens
check_diff_exceeds_limit_AtLimit(diff_tokens, model_name) ==
    LET available_for_diff ==
            get_effective_token_limit(get_model_context_limit(model_name))
                - (PROMPT_HEADER_TOKENS + 100)
    IN [exceeds |-> diff_tokens >= available_for_diff, diff_tokens |-> diff_tokens,
        available |-> available_for_diff]
check_diff_exceeds_limit(diff_tokens, model_name) ==
    LET effective_limit == get_effective_token_limit(get_model_context_limit(model_name))
        prompt_overhead == PROMPT_HEADER_TOKENS + 100
        available_for_diff == effective_limit - prompt_overhead
    IN [exceeds |-> diff_tokens > available_for_diff, diff_tokens |-> diff_tokens,
        available |-> available_for_diff]

\* the diffs tried for it: empty, and within MaxOver tokens of what a model of the table
\* leaves for the diff
MaxOver == 1
DiffTokenCounts ==
    {0} \cup {t \in UNION {(check_diff_exceeds_limit(0, n).available - MaxOver)
                              ..(check_diff_exceeds_limit(0, n).available + MaxOver) :
                           n \in ModelNames} : t >= 0}
CheckCalls ==
    {[name |-> "check_diff_exceeds_limit", diff_tokens |-> t, model_name |-> n,
      done |-> FALSE, result |-> <<>>] : t \in DiffTokenCounts, n \in ModelNames}

\* the name-status and numstat maps tried for build_heuristic_bullets: up to
\* MaxFnFiles paths, in dict order, each added or modified, with or without line counts
MaxFnFiles == 3
FnFileChanges ==
    {[path |-> p, status |-> st, added |-> a, deleted |-> 0] :
        p \in PathUniverse, st \in {"A", "M"}, a \in {0, 10}}
FnFileLists ==
    {fs \in UNION {[1..k -> FnFileChanges] : k \in 0..MaxFnFiles} :
        \A i, j \in 1..Len(fs) : fs[i].path = fs[j].path => i = j}
BulletCalls ==
    {[name |-> "build_heuristic_bullets", files |-> fs, done |-> FALSE, result |-> <<>>] :
        fs \in FnFileLists}

FnCalls ==
    EstimateCalls \cup BatchCalls \cup SplitCalls \cup TruncateCalls \cup ContextLimitCalls
        \cup CheckCalls \cup BulletCalls

Applies(name) == fn.name = name /\ ~fn.done
Applied(name) == fn.name = name /\ fn.done
Return(value) == fn' = [fn EXCEPT !.done = TRUE, !.result = value]
FnFrame ==
    UNCHANGED <<_tokens_spent, _budget_lock, token_budget, thr, pc, exc, bullets, call,
                commit_msg, final_commit_msg, llm_calls, resets, ledger_used, entered, git,
                entry, chunks, tasks, attempt, waits, split>>

\* estimate_stage1_budget, lines 84-107 (its second result)
estimate_stage1_budget ==
    /\ Applies("estimate_stage1_budget")
    /\ Return(max_files_affordable(fn.chunks))
    /\ FnFrame

\* split_and_summarize_diff, lines 334-359: the grouping into batches
split_and_summarize_diff_batches ==
    /\ Applies("batches")
    /\ Return(Batches(fn.chunks, <<>>, 0, fn.max_chunk_tokens))
    /\ FnFrame

\* split_diff_by_file, lines 23-28
split_diff_by_file_apply ==
    /\ Applies("split_diff_by_file")
    /\ Return(split_diff_by_file(fn.diff))
    /\ FnFrame

\* truncate_diff_to_limit, lines 234-293: what is kept of the diff, whether the notice
\* is appended, and the token count of the string returned
truncate_diff_to_limit_apply ==
    /\ Applies("truncate_diff_to_limit")
    /\ LET current_tokens == SumSizes(fn.chunks)
           available_tokens == fn.token_limit - TruncationNoticeTokens
       IN Return([kept |-> IF current_tokens <= fn.token_limit THEN fn.chunks
                           ELSE truncated_chunks(fn.chunks, 0, available_tokens, fn.cut),
                  notice |-> ~(current_tokens <= fn.token_limit),
                  tokens |-> truncate_diff_to_limit(fn.chunks, fn.token_limit, fn.cut)])
    /\ FnFrame

\* get_model_context_limit, lines 82-128
get_model_context_limit_apply ==
    /\ Applies("get_model_context_limit")
    /\ Return(get_model_context_limit(fn.model_name))
    /\ FnFrame

\* check_diff_exceeds_limit, lines 148-176
check_diff_exceeds_limit_apply ==
    /\ Applies("check_diff_exceeds_limit")
    /\ Return(check_diff_exceeds_limit(fn.diff_tokens, fn.model_name))
    /\ FnFrame

\* build_heuristic_bullets, lines 76-122
build_heuristic_bullets_apply ==
    /\ Applies("build_heuristic_bullets")
    /\ Return(build_heuristic_bullets(fn.files))
    /\ FnFrame

InitFn ==
    /\ fn \in FnCalls
    /\ token_budget \in (IF fn.name = "estimate_stage1_budget" THEN 0..MaxFnCeiling
                          ELSE {_DEFAULT_TOKEN_BUDGET})
    /\ _tokens_spent = 0
    /\ _budget_lock = NoThread
    /\ thr = [t \in Threads |-> IdleThread("None")]
    /\ entry = "function"
    /\ pc = "none"
    /\ exc = "none"
    /\ bullets = <<>>
    /\ call = NoCall
    /\ commit_msg = NoMsg
    /\ final_commit_msg = NoMsg
    /\ llm_calls = 0
    /\ resets = 0
    /\ ledger_used = FALSE
    /\ entered = {}
    /\ git = [committed |-> FALSE, pushed |-> FALSE]
    /\ chunks = <<>>
    /\ tasks = <<>>
    /\ attempt = 0
    /\ waits = <<>>
    /\ split = NoSplit

NextFn ==
    \/ estimate_stage1_budget
    \/ split_and_summarize_diff_batches
    \/ split_diff_by_file_apply
    \/ truncate_diff_to_limit_apply
    \/ get_model_context_limit_apply
    \/ check_diff_exceeds_limit_apply
    \/ build_heuristic_bullets_apply

SpecFn == InitFn /\ [][NextFn]_vars

(***************************************************************************)
(* large_diff_handler.py: handle_large_diff, an operation of its own       *)
(* (SpecLarge).  The diff is the list of its file chunks; the model is one *)
(* the table does not know.                                                *)
(***************************************************************************)
\* the ceilings tried: none, exactly enough for a big file after the 500 kept back, and
\* the default; the diffs: those of the run, and one file that just fits the window of
\* the model or is one token too long for it
LargeCeilings == {0, 500 + BigChunk, _DEFAULT_TOKEN_BUDGET}
UnknownModel == <<"m">>
LargeDiffs ==
    ChunkLists \cup
        {<<[file |-> 1, size |-> check_diff_exceeds_limit(0, UnknownModel).available + over]>> :
            over \in 0..MaxOver}
Strategies == {"split", "truncate", "cancel"}
LargeCalls ==
    {[name |-> "handle_large_diff", model_name |-> UnknownModel, strategy |-> s,
      done |-> FALSE, result |-> <<>>] : s \in Strategies}

\* lines 625-626: the limit of the model, capped by what the budget has left
effective_limit_ModelOnly(limit, remaining_budget) == limit
effective_limit(limit, remaining_budget) == Min(limit, Max(0, remaining_budget - 500))

\* lines 627-634: the diff is returned as it is
returns_diff(exceeds, diff_tokens, limit) ==
    \/ ~exceeds /\ diff_tokens <= limit
    \/ ~(exceeds \/ diff_tokens > limit)

\* handle_large_diff, lines 623-656, up to its return, its raise or its call of
\* split_and_summarize_diff; strategy is the argument, or the user's answer
handle_large_diff ==
    /\ pc = "hld_start"
    /\ LET check == check_diff_exceeds_limit(SumSizes(chunks), fn.model_name)
           remaining_budget == _get_max_token_budget - _tokens_spent
           limit == effective_limit(check.available, remaining_budget)
       IN IF returns_diff(check.exceeds, check.diff_tokens, limit)
            THEN /\ Return([is_final |-> FALSE, content |-> chunks, notice |-> FALSE])
                 /\ pc' = "returned"
                 /\ UNCHANGED exc
            ELSE CASE fn.strategy = "cancel" ->
                        /\ Raise("RuntimeError: Operation cancelled by user due to large diff")
                        /\ UNCHANGED fn
                   [] fn.strategy = "truncate" ->
                        /\ \E cut \in 0..MaxCut :
                              Return([is_final |-> FALSE,
                                      content |->
                                          IF SumSizes(chunks) <= limit THEN chunks
                                          ELSE truncated_chunks(chunks, 0,
                                                   limit - TruncationNoticeTokens, cut),
                                      notice |-> ~(SumSizes(chunks) <= limit)])
                        /\ pc' = "returned"
                        /\ UNCHANGED exc
                   [] OTHER ->
                        /\ pc' = "split_start"
                        /\ UNCHANGED <<exc, fn>>
    /\ UNCHANGED <<_tokens_spent, _budget_lock, token_budget, thr, entry, bullets, call,
                   commit_msg, final_commit_msg, llm_calls, resets, ledger_used, entered,
                   git>>
    /\ UNCHANGED diffVars

InitLarge ==
    /\ entry = "handle_large_diff"
    /\ _tokens_spent \in 0..MaxLeftover
    /\ _budget_lock = NoThread
    /\ token_budget \in LargeCeilings
    /\ thr = [t \in Threads |-> IdleThread("None")]
    /\ pc = "hld_start"
    /\ exc = "none"
    /\ bullets = <<>>
    /\ call = NoCall
    /\ commit_msg = NoMsg
    /\ final_commit_msg = NoMsg
    /\ llm_calls = 0
    /\ resets = 0
    /\ ledger_used = FALSE
    /\ entered = {}
    /\ git = [committed |-> FALSE, pushed |-> FALSE]
    /\ chunks \in LargeDiffs
    /\ tasks = <<>>
    /\ attempt = 0
    /\ waits = <<>>
    /\ split = NoSplit
    /\ fn \in LargeCalls

NextLarge ==
    \/ handle_large_diff
    \/ split_start
    \/ \E i \in 1..Len(tasks) : pool_start(i)
    \/ \E i \in 1..Len(tasks) : summarize_batch_reserve(i)
    \/ \E i \in 1..Len(tasks) : summarize_batch_invoke(i)
    \/ \E i \in 1..Len(tasks) : summarize_batch_complete(i)
    \/ split_combine
    \/ recursive_summarize_reserve
    \/ recursive_summarize_invoke
    \/ recursive_summarize_complete
    \/ generate_final_reserve
    \/ generate_final_invoke
    \/ generate_final_complete

SpecLarge == InitLarge /\ [][NextLarge]_vars

(***************************************************************************)
(* Properties of the run (Spec).                                           *)
(***************************************************************************)
\* the exceptions auto_commit_and_push raises before synthesis starts and after it ends
OutsideSynthesis ==
    {"RuntimeError: safety verification failed", "CalledProcessError: push",
     "RuntimeError: No staged files found", "RuntimeError: No staged changes to commit",
     "CalledProcessError: commit"}

\* C5: once staged changes are confirmed to exist, auto_commit_and_push never ends with
\* an exception raised by message synthesis, whatever the model does and whatever the
\* ceiling is.
C5_SynthesisNeverRaises ==
    entry = "auto_commit_and_push" /\ pc = "raised" => exc \in OutsideSynthesis

\* C6: the message handed to the commit operation is non-empty, for every text the
\* model answers with, on every synthesis path.
C6_CommitMessageNonEmpty ==
    entry = "auto_commit_and_push" /\ pc = "acp_commit" => final_commit_msg # <<>>

\* a reservation that allows the call it was made for
Granted == {"hard_ok", "soft"}
\* where the main thread is about to send a request
MainInvoke ==
    {"compose_invoke", "hier_final_invoke", "samp_final_invoke", "retry_invoke",
     "rec_invoke", "gen_invoke"}

\* C7: on every synthesis path, each model invocation is made by a task that holds a
\* reservation for that call, a granted hard one or a soft one; no invocation follows a
\* refused hard reservation.
C7_ReservationBeforeInvocation ==
    [][llm_calls' # llm_calls =>
          /\ llm_calls' = llm_calls + 1
          /\ \/ pc \in MainInvoke /\ call.resv \in Granted /\ call.est > 0
             \/ \E i \in 1..Len(tasks) :
                   /\ tasks[i].pc = "invoke" /\ tasks'[i].pc = "wait"
                   /\ tasks[i].resv \in Granted /\ tasks[i].est > 0]_vars

\* in the worker pool one call was refused its reservation and made no request, while
\* another, granted its reservation, has sent its request
C7_Witness ==
    /\ pc = "hier_pool"
    /\ llm_calls = 1
    /\ \E i, j \in 1..Len(tasks) :
          /\ tasks[i].pc = "done" /\ tasks[i].resv = "hard_fail"
          /\ tasks[j].pc = "wait" /\ tasks[j].resv = "hard_ok"

\* C8: in a run of auto_commit_and_push that reaches synthesis the ledger is reset once,
\* before the first reservation or invocation, and at that point holds 0.
C8_ResetOnceBeforeUse ==
    entry = "auto_commit_and_push" =>
        /\ resets <= 1
        /\ (entered # {} \/ ledger_used \/ llm_calls > 0) => resets = 1
        /\ (resets = 1 /\ ~ledger_used) => _tokens_spent = 0

\* the run has reset the ledger, reserved, and invoked the model
C8_Witness ==
    /\ entry = "auto_commit_and_push"
    /\ resets = 1 /\ ledger_used /\ llm_calls = 1
    /\ pc = "acp_commit"

DiffBased ==
    {"smart_hierarchical_commit_message", "hierarchical_commit_message",
     "sampled_commit_message", "generate_commit_message_with_retry",
     "split_and_summarize_diff", "recursive_summarize",
     "generate_final_commit_from_summaries"}

\* C9: the heuristic path comes first.  With at least one bullet the message comes from
\* compose_commit_from_bullets, with at most one model call and no diff-based strategy
\* entered; the diff-based path is entered only with an empty bullet list.
C9_HeuristicFirst ==
    entry = "auto_commit_and_push" =>
        /\ bullets # <<>> =>
              /\ entered = {"compose_commit_from_bullets"}
              /\ llm_calls <= 1
        /\ entered \cap DiffBased # {} => bullets = <<>>
        /\ (entered # {} /\ bullets = <<>>) => "compose_commit_from_bullets" \notin entered

\* a run with bullets has reached the commit with one model call made
C9_Witness ==
    /\ entry = "auto_commit_and_push"
    /\ bullets # <<>>
    /\ pc = "acp_commit" /\ llm_calls = 1

TheBullet == "- Add code in foo: bar.py (+10 -0)"

\* C10: when the reservation of compose_commit_from_bullets is refused, no model call is
\* made, spent is left as it was (0, after the reset), nothing is raised, and the message
\* is the local composer's; for the single bullet "- Add code in foo: bar.py (+10 -0)"
\* it starts with "chore:".
C10_RefusedComposeIsLocal ==
    ("compose_commit_from_bullets" \in entered /\ call.resv = "hard_fail") =>
        /\ llm_calls = 0
        /\ _tokens_spent = 0
        /\ pc = "raised" => exc \in OutsideSynthesis
        /\ commit_msg = compose_commit_from_bullets_local(bullets)
        /\ (Len(bullets) = 1 /\ bullets[1].text = TheBullet) => commit_msg[1] = "chore:"

\* the reservation was refused for the single bullet, and the run is at the commit
C10_Witness ==
    /\ "compose_commit_from_bullets" \in entered
    /\ call.resv = "hard_fail"
    /\ Len(bullets) = 1 /\ bullets[1].text = TheBullet
    /\ pc = "acp_commit"

\* the per-file strategies of commit_generation.py
PerFile == {"hierarchical_commit_message", "sampled_commit_message"}

\* C11: when the heuristic path yields nothing and the diff fits the effective limit
\* (here also with the default ceiling, so the budget is no constraint), the synthesizer
\* takes the single shot on the header and the full diff: per-file summarization is not
\* used, and the message comes from exactly one model invocation.
C11_SmallDiffSingleShot ==
    (/\ entry = "auto_commit_and_push"
     /\ "smart_hierarchical_commit_message" \in entered
     /\ chunks # <<>>
     /\ token_budget = _DEFAULT_TOKEN_BUDGET
     /\ SumSizes(chunks) <= get_effective_token_limit(DEFAULT_CONTEXT_LIMIT))
    => /\ entered \cap PerFile = {}
       /\ tasks = <<>>
       /\ pc = "acp_commit" => llm_calls = 1

\* stage 1 went through with every reservation granted and no call failing
Stage1Clean ==
    \A i \in 1..Len(tasks) :
       tasks[i].pc = "done" /\ tasks[i].resv = "hard_ok" /\ tasks[i].bullet.kind # "update_path"

\* C12: in the hierarchical path over N file chunks, with every reservation granted and no
\* invocation failing, exactly N + 1 model invocations are made: one per file, then one
\* synthesis, sent only after all N summaries are back; the result is the synthesis
\* response (cleaned of surrounding whitespace and backquotes; the fixed message if the
\* response is empty).
C12_HierarchicalCallCount ==
    "hierarchical_commit_message" \in entered =>
        /\ Len(tasks) = Len(chunks)
        /\ pc = "hier_pool" => llm_calls <= Len(chunks)
        /\ pc \in {"hier_final_invoke", "hier_final_wait"} =>
              \A i \in 1..Len(tasks) : tasks[i].pc = "done"
        /\ (pc = "hier_final_wait" /\ Stage1Clean) => llm_calls = Len(chunks) + 1
        /\ (/\ Stage1Clean
            /\ "generate_commit_message_with_retry" \notin entered
            /\ call.reply.kind = "ok") =>
              /\ llm_calls = Len(chunks) + 1
              /\ commit_msg = IF call.reply.text = <<>> THEN STATIC_MESSAGE
                               ELSE strip(strip_chars(strip(call.reply.text), {FENCE}))

\* two files were summarized by the model, and the synthesis answer is the result
C12_Witness ==
    /\ entered = {"hierarchical_commit_message"}
    /\ Len(chunks) = 2 /\ Stage1Clean
    /\ call.reply.kind = "ok" /\ call.reply.text = <<SP, TXT>>
    /\ llm_calls = 3
    /\ commit_msg = <<TXT>>

\* the tasks of stage 1 that sent a request, and those whose bullet is the model's answer
Invoked == {i \in 1..Len(tasks) : tasks[i].resv = "hard_ok"}
Summarized == {i \in 1..Len(tasks) : tasks[i].bullet.kind = "llm"}
\* the chunks all cost the same to reserve
EqualCost == \A i, j \in 1..Len(tasks) : tasks[i].chunk.size = tasks[j].chunk.size
\* how many reservations of a chunk the ceiling admits at once
AdmittedAtOnce ==
    token_budget \div (SummarisePromptTokens(tasks[1].chunk) + SummariseCompletion)

\* C13: budget exhaustion in stage 1 of the hierarchical path.  With N chunks of equal
\* reservation cost, a ceiling that admits only K < N of these reservations at once, and
\* a model that answers every request, exactly K chunks are summarized by model
\* invocations and the other N - K get the local "- Update <file>" bullet, under every
\* interleaving of the workers.
C13_ExactlyKSummarized ==
    (/\ entry = "hierarchical_commit_message"
     /\ tasks # <<>> /\ AllDone /\ EqualCost
     /\ AdmittedAtOnce < Len(tasks)
     /\ Invoked = Summarized)
    => /\ Cardinality(Invoked) = AdmittedAtOnce
       /\ \A i \in 1..Len(tasks) :
             i \notin Invoked => tasks[i].bullet = UpdatePathBullet(tasks[i].chunk)

\* a reservation of stage 1 was refused
Stage1Exhausted == \E i \in 1..Len(tasks) : tasks[i].resv = "hard_fail"

\* C14: after budget exhaustion in stage 1 of the hierarchical (or sampled) path the
\* final synthesis is still sent when its reservation is granted; when that reservation
\* or that call fails, the message is composed locally from the bullets collected:
\* nothing is raised and the full diff is not sent to the model.
C14_LocalAfterFinalFailure ==
    (entered \cap PerFile # {} /\ Stage1Exhausted) =>
        /\ pc \in {"hier_final_wait", "samp_final_wait"} => call.resv = "hard_ok"
        /\ pc = "raised" => exc \in OutsideSynthesis
        /\ "generate_commit_message_with_retry" \notin entered
        /\ pc \notin {"retry_netcheck", "retry_reserve", "retry_invoke", "retry_wait"}

\* the single-shot controller got a non-empty answer (a reply of the per-file paths'
\* synthesis never coexists with the controller having been entered)
RetrySucceeded ==
    /\ "generate_commit_message_with_retry" \in entered
    /\ call.reply.kind = "ok" /\ call.reply.text # <<>>

\* C15: retry then success.  When the first calls of generate_commit_message_with_retry
\* raise and a later one succeeds (two failures, then success on the third), the
\* controller has made one invocation per attempt (3), has slept 1 s and then 2 s between
\* them, returns the successful response (fences trimmed), and the ledger holds only the
\* charge of the successful attempt after its true-up: the failed attempts were refunded
\* in full.
C15_RetryThenSuccess ==
    RetrySucceeded =>
        /\ attempt < max_retries
        /\ waits = [i \in 1..attempt |-> 2 ^ (i - 1)]
        /\ attempt = 2 => waits = <<1, 2>>
        /\ commit_msg = strip_fences(call.reply.text)
        /\ _tokens_spent =
              call.before + Min(call.est, real_spent(FullPromptTokens(chunks), call.reply.text))
        /\ entry = "generate_commit_message_with_retry" =>
              /\ llm_calls = attempt + 1
              /\ call.before = 0

\* two calls failed, the third succeeded, and the controller has returned
C15_Witness ==
    /\ entry = "generate_commit_message_with_retry"
    /\ pc = "returned"
    /\ RetrySucceeded
    /\ attempt = 2 /\ llm_calls = 3 /\ waits = <<1, 2>>
    /\ _tokens_spent > 0 /\ _tokens_spent < call.est

\* where the single-shot controller is inside its loop
InRetryLoop == {"retry_reserve", "retry_invoke", "retry_wait"}
\* the last pass of the loop has failed
RetriesExhausted ==
    /\ "generate_commit_message_with_retry" \in entered
    /\ pc \notin InRetryLoop
    /\ attempt = max_retries - 1
    /\ call.reply.kind = "raise"

\* C16: in the retry controller, after every failed attempt _tokens_spent is back at its
\* value just before that attempt's reservation; when all attempts fail, exactly
\* max_retries (3) invocations were made, the fallback message is returned, and the
\* whole call has charged the ledger nothing.
C16_FailedAttemptsRefunded ==
    /\ (pc = "retry_reserve" /\ attempt >= 1) =>
          /\ call.reply.kind = "raise"
          /\ _tokens_spent = call.before
    /\ RetriesExhausted =>
          /\ _tokens_spent = call.before
          /\ Len(waits) = max_retries - 1
          /\ pc = "raised" => exc \in OutsideSynthesis
          /\ pc # "fallback" => commit_msg \in {STATIC_MESSAGE, <<TXT>>}
          /\ entry = "generate_commit_message_with_retry" =>
                /\ llm_calls = max_retries
                /\ _tokens_spent = 0

\* three calls were made and refunded, and the controller has returned the fixed message
C16_Witness ==
    /\ entry = "generate_commit_message_with_retry"
    /\ RetriesExhausted
    /\ pc = "returned"
    /\ call.resv = "hard_ok" /\ call.est > 0
    /\ llm_calls = 3 /\ _tokens_spent = 0
    /\ commit_msg = STATIC_MESSAGE

\* C17: the retry controller classifies errors: after an error that is not a network or
\* timeout error it makes no further attempt and does not wait; it goes straight to the
\* fallback message.
C17_NonRetryableFailsFast ==
    (/\ "generate_commit_message_with_retry" \in entered
     /\ pc = "retry_reserve" /\ attempt >= 1
     /\ call.reply.kind = "raise")
    => is_network_error(call.reply.text)

\* C18: in the retry controller the network reachability check is a diagnostic made
\* after the attempts are exhausted; it never keeps the first attempt from being made
\* when the reservation is granted.  (For a call of the controller on a fresh ledger:
\* whenever the reservation of the prompt is admitted, the fallback is reached only
\* after a model invocation.)
C18_NetworkCheckAfterRetries ==
    (/\ entry = "generate_commit_message_with_retry"
     /\ pc \in {"fallback", "returned"}
     /\ Admits(_tokens_spent, FullPromptTokens(chunks) + RetryCompletion))
    => llm_calls >= 1

\* a model that is a function of its prompt: here, the same one-piece bullet for every
\* per-file request
FixedBullet == LlmBullet(<<TXT>>)
ModelIsFixed ==
    \A i \in 1..Len(tasks) : tasks[i].resv = "hard_ok" => tasks[i].bullet = FixedBullet

\* stage 1 run by one worker, chunk after chunk, with that model: the bullets it yields
RECURSIVE SequentialStage1(_, _)
SequentialStage1(cs, spent) ==
    IF cs = <<>> THEN <<>>
    ELSE LET est_prompt == SummarisePromptTokens(Head(cs))
             est_total == est_prompt + SummariseCompletion
         IN IF spent + est_total > token_budget
              THEN <<UpdatePathBullet(Head(cs))>> \o SequentialStage1(Tail(cs), spent)
              ELSE <<FixedBullet>>
                     \o SequentialStage1(Tail(cs),
                                          spent + Min(est_total, est_prompt + token_len(<<TXT>>)))

\* C19: for a fixed diff, a fixed ceiling and a model that is a function of its prompt,
\* the bullets that make up the final synthesis prompt of the hierarchical and sampled
\* paths (and with them the returned message) are the same under every interleaving of
\* the workers, also when the budget does not cover all chunk reservations: they are
\* those of the run in which one worker takes the chunks in order.
C19_InterleavingIndependent ==
    (/\ entered \cap PerFile # {}
     /\ tasks # <<>> /\ AllDone
     /\ ModelIsFixed)
    => sorted([i \in 1..Len(tasks) |-> tasks[i].bullet])
         = sorted(SequentialStage1([i \in 1..Len(tasks) |-> tasks[i].chunk], 0))

\* C20: recursive_summarize terminates for every model behaviour, also for answers that
\* do not shrink the text and for calls that always fail: it never goes into another
\* round on the very text it was given, which the same answers would leave unchanged
\* round after round.
C20_RecursiveSummarizeTerminates ==
    [][(pc = "rec_wait" /\ split'.round = split.round + 1)
          => split'.summaries # split.summaries]_vars

(***************************************************************************)
(* The split path (split_and_summarize_diff and its callees).              *)
(***************************************************************************)
SplitRun == entry = "split_and_summarize_diff"
\* the subject lines _commit_message_from_summaries writes: both start with "chore:"
ChoreSubjects == {"chore: update multiple files", "chore: batch updates from summaries"}

RECURSIVE InFlight(_)
InFlight(i) ==
    IF i = 0 THEN 0
    ELSE (IF tasks[i].pc \in {"invoke", "wait"} THEN tasks[i].est ELSE 0) + InFlight(i - 1)
Outstanding ==
    InFlight(Len(tasks))
        + (IF pc \in {"rec_invoke", "rec_wait", "gen_invoke", "gen_wait"} THEN call.est ELSE 0)
BatchesSent == {i \in 1..Len(tasks) : tasks[i].pc \in {"wait", "done"}}

\* C22: the split path makes soft reservations only: every reservation is added to the
\* ledger whatever the ceiling, every batch is sent to the model, and when the final
\* message is there the warning has been given exactly if spent is above the ceiling.
C22_SplitSoftOnly ==
    SplitRun =>
        /\ \A i \in 1..Len(tasks) :
              tasks[i].pc \in {"invoke", "wait", "done"} => tasks[i].resv = "soft"
        /\ call.resv \in {"none", "soft"}
        /\ _tokens_spent >= Outstanding
        /\ pc = "split_pool" => llm_calls = Cardinality(BatchesSent)
        /\ pc \notin {"split_start", "split_pool"} =>
              BatchesSent = 1..Len(tasks) /\ llm_calls >= Len(tasks)
        /\ pc = "returned" =>
              /\ llm_calls >= Len(tasks) + 1
              /\ split.warned <=> _tokens_spent > _get_max_token_budget

\* with a ceiling of 0, both batches and the final request were sent, spent ended above
\* the ceiling and the warning was given
C22_Witness ==
    /\ SplitRun /\ pc = "returned"
    /\ _get_max_token_budget = 0
    /\ Len(tasks) = MaxChunks
    /\ llm_calls = Len(tasks) + 1
    /\ _tokens_spent > _get_max_token_budget
    /\ split.warned

(***************************************************************************)
(* Properties of the ledger with the soft operations (SpecSoft).           *)
(***************************************************************************)
\* a thread executes the body of reserve_tokens_soft / of is_over_budget in this step
SoftReserveRuns(t) == thr[t].op = "reserve_soft" /\ thr[t].pc = "locked" /\ thr'[t].pc = "idle"
OverBudgetRuns(t) == thr[t].op = "over_budget" /\ thr[t].pc = "locked" /\ thr'[t].pc = "idle"

\* C23: reserve_tokens_soft(n) returns True and adds exactly n to spent whatever the
\* ceiling; is_over_budget() returns True exactly when spent > ceiling (not when
\* spent = ceiling) and leaves spent alone.
C23_SoftReserveAndOverBudget ==
    [][\A t \in Threads :
          /\ SoftReserveRuns(t) =>
                thr'[t].ret = "True" /\ _tokens_spent' = _tokens_spent + thr[t].n
          /\ OverBudgetRuns(t) =>
                /\ thr'[t].ret = (IF _tokens_spent > _get_max_token_budget THEN "True"
                                  ELSE "False")
                /\ _tokens_spent = _get_max_token_budget => thr'[t].ret = "False"
                /\ _tokens_spent' = _tokens_spent]_vars

\* a soft reservation has taken the ledger from the ceiling to above it: one thread was
\* told "not over budget" at the ceiling, the other made the soft reservation
C23_Witness ==
    \E t, u \in Threads :
        /\ thr[t].pc = "idle" /\ thr[t].op = "reserve_soft" /\ thr[t].n > 0
        /\ thr[t].ret = "True"
        /\ thr[u].pc = "idle" /\ thr[u].op = "over_budget" /\ thr[u].ret = "False"
        /\ _get_max_token_budget > 0
        /\ _tokens_spent = _get_max_token_budget + thr[t].n

(***************************************************************************)
(* Path selection, sampling and the stage-1 estimate (Spec).               *)
(***************************************************************************)
\* the run went through smart_hierarchical_commit_message and has split the diff
SmartRun == entry = "auto_commit_and_push" /\ chunks # <<>>
Range(f) == {f[i] : i \in DOMAIN f}
TaskChunks == [i \in 1..Len(tasks) |-> tasks[i].chunk]
Sampled == "sampled_commit_message" \in entered
AdditionalBullets(bs) == {i \in 1..Len(bs) : bs[i].kind = "additional"}

\* C24: with max_files_affordable >= the number of chunks the hierarchical path is
\* taken and every chunk is handed to summarise_file_diff; otherwise the sampled path is
\* taken, exactly the max_files_affordable largest chunks are handed over, largest
\* first, and the bullets of stage 2 hold exactly one "- Update N additional files" with
\* N = total - selected > 0.
C24_PathSelectionAndSampling ==
    SmartRun =>
        LET k == max_files_affordable(chunks)
            left_out == {c \in Range(chunks) : c \notin Range(TaskChunks)}
        IN IF Len(chunks) <= k
             THEN /\ "hierarchical_commit_message" \in entered /\ ~Sampled
                  /\ TaskChunks = chunks
             ELSE /\ Sampled /\ "hierarchical_commit_message" \notin entered
                  /\ Len(tasks) = k
                  /\ Range(TaskChunks) \subseteq Range(chunks)
                  /\ \A i, j \in 1..Len(tasks) :
                        i < j => /\ tasks[i].chunk # tasks[j].chunk
                                 /\ tasks[i].chunk.size >= tasks[j].chunk.size
                  /\ \A c \in left_out : \A i \in 1..Len(tasks) : c.size <= tasks[i].chunk.size
                  /\ Len(tasks) + Cardinality(left_out) = Len(chunks)
                  /\ AllDone =>
                        LET bs == Stage1Bullets("samp") IN
                        /\ Cardinality(AdditionalBullets(bs)) = 1
                        /\ \A i \in AdditionalBullets(bs) :
                              /\ bs[i] = AdditionalBullet(Cardinality(left_out))
                              /\ bs[i].file > 0
                        /\ Len(bs) = Len(tasks) + 1

\* the second of two files is the larger one and the only one that fits: it was
\* summarised, the first was counted as "1 additional files"
C24_Witness ==
    /\ SmartRun /\ Sampled
    /\ Len(chunks) = 2 /\ Len(tasks) = 1
    /\ tasks[1].chunk = chunks[2]
    /\ chunks[1].size < chunks[2].size
    /\ pc = "samp_final_wait"
    /\ AdditionalBullet(1) \in Range(Stage1Bullets("samp"))

(***************************************************************************)
(* Properties of the functions applied on their own (SpecFn).              *)
(***************************************************************************)
\* the sample of estimate_stage1_budget: its size and the sum of (prompt tokens + 64)
EstimateSampleSize == Min(10, Len(fn.chunks))
EstimateSampleTokens ==
    SumSizes(SubSeq(fn.chunks, 1, EstimateSampleSize))
        + EstimateSampleSize * (SummariseIntroTokens + 64)
\* k = floor(x / avg), with avg = EstimateSampleTokens / EstimateSampleSize and
\* x = num / den
IsFloorOverAvg(k, num, den) ==
    /\ k * EstimateSampleTokens * den <= num * EstimateSampleSize
    /\ num * EstimateSampleSize < (k + 1) * EstimateSampleTokens * den

RECURSIVE Flatten(_)
Flatten(seqs) == IF seqs = <<>> THEN <<>> ELSE Head(seqs) \o Flatten(Tail(seqs))

\* C26: the batches of split_and_summarize_diff, concatenated, are the chunk list; every
\* batch is non-empty; a batch of more than one chunk has at most max_chunk_tokens
\* tokens in total; a chunk that alone exceeds max_chunk_tokens is a batch of its own.
C26_BatchesPartitionChunks ==
    Applied("batches") =>
        /\ Flatten(fn.result) = fn.chunks
        /\ \A b \in 1..Len(fn.result) :
              LET batch == fn.result[b] IN
              /\ batch # <<>>
              /\ Len(batch) > 1 => SumSizes(batch) <= fn.max_chunk_tokens
              /\ \A i \in 1..Len(batch) :
                    batch[i].size > fn.max_chunk_tokens => Len(batch) = 1

\* a batch of two chunks, then a chunk over the limit on its own, then a last batch
C26_Witness ==
    /\ Applied("batches")
    /\ Len(fn.result) = 3
    /\ Len(fn.result[1]) = 2
    /\ Len(fn.result[2]) = 1 /\ fn.result[2][1].size > fn.max_chunk_tokens
    /\ SumSizes(fn.result[3]) <= fn.max_chunk_tokens

\* where the marker occurs in a string
Occurrences(s) ==
    {i \in 1..Len(s) : i + Len(CHUNK_HEADER) - 1 <= Len(s)
                          /\ SubSeq(s, i, i + Len(CHUNK_HEADER) - 1) = CHUNK_HEADER}
\* the string from its first marker on
FromFirstHeader(s) ==
    IF Occurrences(s) = {} THEN <<>>
    ELSE SubSeq(s, CHOOSE i \in Occurrences(s) : \A j \in Occurrences(s) : i <= j, Len(s))

\* C27: for a diff in which the marker "diff --git " occurs k times, split_diff_by_file
\* returns k chunks; each starts with the marker and holds no other occurrence of it;
\* the chunks, concatenated in the order returned, are the diff from its first marker on.
C27_SplitRoundTrip ==
    Applied("split_diff_by_file") =>
        /\ Len(fn.result) = Cardinality(Occurrences(fn.diff))
        /\ \A i \in 1..Len(fn.result) :
              /\ startswith(fn.result[i], CHUNK_HEADER)
              /\ Occurrences(fn.result[i]) = {1}
        /\ Flatten(fn.result) = FromFirstHeader(fn.diff)

\* a diff with a preamble and two markers, the first chunk with a body that begins like
\* the marker
C27_Witness ==
    /\ Applied("split_diff_by_file")
    /\ ~startswith(fn.diff, CHUNK_HEADER)
    /\ Len(fn.result) = 2
    /\ Len(fn.result[1]) > Len(CHUNK_HEADER)
    /\ fn.result[1][3] = "d"
    /\ Flatten(fn.result) # fn.diff

\* C28: truncate_diff_to_limit returns the diff as it is when its token count is within
\* the limit; otherwise the notice "[... Diff truncated ..." is appended and what is kept
\* is the first n file chunks, whole and in order, followed by at most one partial chunk,
\* a proper prefix of chunk n + 1, the first chunk that did not fit.
C28_TruncateKeepsPrefix ==
    Applied("truncate_diff_to_limit") =>
        LET kept == fn.result.kept
            whole == {i \in 1..Len(kept) : i <= Len(fn.chunks) /\ kept[i] = fn.chunks[i]}
            n == Cardinality(whole)
        IN IF SumSizes(fn.chunks) <= fn.token_limit
             THEN kept = fn.chunks /\ ~fn.result.notice
                     /\ fn.result.tokens = SumSizes(fn.chunks)
             ELSE /\ fn.result.notice
                  /\ whole = 1..n
                  /\ n < Len(fn.chunks)
                  /\ Len(kept) \in {n, n + 1}
                  /\ Len(kept) = n + 1 =>
                        /\ kept[n + 1].file = fn.chunks[n + 1].file
                        /\ kept[n + 1].size < fn.chunks[n + 1].size
                  /\ SumSizes(SubSeq(fn.chunks, 1, n + 1)) > fn.token_limit - TruncationNoticeTokens
                  /\ SumSizes(kept) = KeepChunks(fn.chunks, 0,
                                                 fn.token_limit - TruncationNoticeTokens,
                                                 fn.cut).tokens

\* two chunks of which the first is kept whole and the second in part
C28_Witness ==
    /\ Applied("truncate_diff_to_limit")
    /\ fn.result.notice
    /\ Len(fn.chunks) = 2 /\ Len(fn.result.kept) = 2
    /\ fn.result.kept[1] = fn.chunks[1]
    /\ fn.result.kept[2].size < fn.chunks[2].size
    /\ fn.result.kept[2].size > 100

\* C29: when the limit is below the token count of the diff, what truncate_diff_to_limit
\* returns, notice included, has at most `limit` tokens.
C29_TruncatedWithinLimit ==
    (Applied("truncate_diff_to_limit") /\ fn.token_limit < SumSizes(fn.chunks)) =>
        fn.result.tokens <= fn.token_limit

\* the entries of the table, the known names contained in a name, the families in it
ExactEntries(n) ==
    {i \in 1..Len(MODEL_CONTEXT_LIMITS) : MODEL_CONTEXT_LIMITS[i].name = n}
ContainedEntries(n) ==
    {i \in 1..Len(MODEL_CONTEXT_LIMITS) :
        contains(lower(n), lower(MODEL_CONTEXT_LIMITS[i].name))}
ContainedFamilies(n) ==
    {i \in 1..Len(FAMILY_LIMITS) : contains(lower(n), FAMILY_LIMITS[i].name)}
Least(S) == CHOOSE i \in S : \A j \in S : i <= j

\* C30: get_model_context_limit returns the limit of the table entry with exactly this
\* name if there is one (whatever other entries are a prefix or part of the name); else
\* the limit of the first table entry that, case ignored, is a prefix or a part of the
\* name; else the limit of the first family whose fragment is in the name; else 8000.
\* "gpt-4o" gives 128000, "gpt-4" 8192, "claude-3-5-sonnet" and
\* "claude-3-5-sonnet-20241022" 200000, "unknown-model" 8000.
C30_ContextLimitResolution ==
    Applied("get_model_context_limit") =>
        LET n == fn.model_name IN
        /\ \A i \in ExactEntries(n) : fn.result = MODEL_CONTEXT_LIMITS[i].limit
        /\ (ExactEntries(n) = {} /\ ContainedEntries(n) # {}) =>
              fn.result = MODEL_CONTEXT_LIMITS[Least(ContainedEntries(n))].limit
        /\ (ExactEntries(n) = {} /\ ContainedEntries(n) = {} /\ ContainedFamilies(n) # {}) =>
              fn.result = FAMILY_LIMITS[Least(ContainedFamilies(n))].limit
        /\ (ExactEntries(n) = {} /\ ContainedEntries(n) = {} /\ ContainedFamilies(n) = {}) =>
              fn.result = 8000
        /\ n = <<"g", "p", "t", "-", "4", "o">> => fn.result = 128000
        /\ n = <<"g", "p", "t", "-", "4">> => fn.result = 8192
        /\ n =
              <<"c", "l", "a", "u", "d", "e", "-", "3", "-", "5", "-", "s", "o", "n", "n", "e", "t">> => fn.result = 200000
        /\ n =
              <<"c", "l", "a", "u", "d", "e", "-", "3", "-", "5", "-", "s", "o", "n", "n", "e", "t", "-", "2", "0", "2", "4", "1", "0", "2", "2">> => fn.result = 200000
        /\ n =
              <<"u", "n", "k", "n", "o", "w", "n", "-", "m", "o", "d", "e", "l">> => fn.result = 8000

\* "o1-mini" is in the table with 128000, after "o1" (200000), which is a prefix of it:
\* the exact entry was taken
C30_Witness ==
    /\ Applied("get_model_context_limit")
    /\ fn.model_name = <<"o", "1", "-", "m", "i", "n", "i">>
    /\ Least(ContainedEntries(fn.model_name)) < Least(ExactEntries(fn.model_name))
    /\ fn.result = 128000

\* C31: check_diff_exceeds_limit returns (exceeds, diff_tokens, available) with
\* available = context window of the model - 2000 - tokens of the prompt header - 100;
\* exceeds is true exactly when diff_tokens > available; available is positive for
\* every model name.
C31_CheckDiffExceedsLimit ==
    Applied("check_diff_exceeds_limit") =>
        /\ fn.result.diff_tokens = fn.diff_tokens
        /\ fn.result.available =
              get_model_context_limit(fn.model_name) - 2000 - PROMPT_HEADER_TOKENS - 100
        /\ fn.result.exceeds <=> fn.diff_tokens > fn.result.available
        /\ fn.result.available > 0

\* a diff of exactly the tokens left by a model with the smallest window: not over
C31_Witness ==
    /\ Applied("check_diff_exceeds_limit")
    /\ get_model_context_limit(fn.model_name) = DEFAULT_CONTEXT_LIMIT
    /\ fn.diff_tokens = fn.result.available
    /\ ~fn.result.exceeds

\* the bullet text of each input file, and the files whose text no earlier file has
FileTexts == [i \in 1..Len(fn.files) |-> HeuristicBullet(fn.files[i]).text]
FirstSeen == {i \in 1..Len(fn.files) : \A j \in 1..(i - 1) : FileTexts[j] # FileTexts[i]}

\* C32: build_heuristic_bullets returns, for given name-status and numstat maps, one
\* determined list: no two of its bullets are equal, and they are the bullets of the
\* input files in the order in which each was first seen.
C32_HeuristicBulletsStable ==
    Applied("build_heuristic_bullets") =>
        LET out == fn.result IN
        /\ \A i, j \in 1..Len(out) : out[i].text = out[j].text => i = j
        /\ Len(out) = Cardinality(FirstSeen)
        /\ \A k \in 1..Len(out) :
              \E i \in FirstSeen :
                  /\ Cardinality({j \in FirstSeen : j <= i}) = k
                  /\ out[k] = HeuristicBullet(fn.files[i])
        /\ out = build_heuristic_bullets(fn.files)

\* three files of which the third gives the bullet of the first: two bullets, in the
\* order of the first two files
C32_Witness ==
    /\ Applied("build_heuristic_bullets")
    /\ Len(fn.files) = 3 /\ Len(fn.result) = 2
    /\ FileTexts[3] = FileTexts[1]
    /\ fn.result[1].text = FileTexts[1]
    /\ fn.result[2].text = FileTexts[2]

\* the positions of auto_commit_and_push before the commit: the status check, the
\* reset, the staged check, the synthesis and the prompt for a comment
BeforeCommit ==
    entry = "auto_commit_and_push"
       /\ pc \notin {"acp_push", "returned", "returned_early", "raised"}

\* C33: in a run that has local changes the order is synthesize -> commit -> push: a
\* commit exists only once a synthesis function was entered and has returned, a push of
\* that commit only once the commit succeeded, and a run that ends with an exception of
\* the synthesis has neither committed nor pushed.  The one push without a synthesis is
\* the push of commits that existed before the run, made when nothing is left to commit.
C33_SynthesizeCommitPush ==
    entry = "auto_commit_and_push" =>
        /\ git.committed =>
              /\ entered # {}
              /\ \/ pc \in {"acp_push", "returned"}
                 \/ pc = "raised" /\ exc = "CalledProcessError: push"
        /\ git.pushed =>
              \/ git.committed /\ pc = "returned"
              \/ pc = "returned_early" /\ ~git.committed /\ entered = {}
        /\ BeforeCommit => ~git.committed /\ ~git.pushed
        /\ pc = "raised" /\ exc # "CalledProcessError: push" =>
              ~git.committed /\ ~git.pushed

\* C33 as stated: every push follows a completed synthesis and a successful commit
C33_AsStated ==
    entry = "auto_commit_and_push" /\ git.pushed => git.committed /\ entered # {}

\* a run that asked the model, committed and pushed
C33_Witness ==
    /\ entry = "auto_commit_and_push" /\ pc = "returned"
    /\ llm_calls > 0 /\ entered # {}
    /\ git.committed /\ git.pushed

\* the two exceptions of the staged check
NothingStaged ==
    {"RuntimeError: No staged files found", "RuntimeError: No staged changes to commit"}

\* C34: when no file is staged, or the filtered staged diff is empty, auto_commit_and_push
\* ends with a RuntimeError about the missing staged changes, and up to there the run
\* made no reservation, sent no request to the model, made no retry, no commit and no
\* push; the ledger holds what the reset of the run left in it.
C34_NothingStagedRaises ==
    entry = "auto_commit_and_push" /\ pc = "raised" /\ exc \in NothingStaged =>
        /\ ~ledger_used /\ _tokens_spent = 0 /\ call = NoCall
        /\ llm_calls = 0 /\ entered = {} /\ tasks = <<>>
        /\ attempt = 0 /\ waits = <<>>
        /\ commit_msg = NoMsg /\ final_commit_msg = NoMsg
        /\ ~git.committed /\ ~git.pushed

\* a run that was reset and then found the filtered staged diff empty
C34_Witness ==
    /\ entry = "auto_commit_and_push" /\ pc = "raised"
    /\ exc = "RuntimeError: No staged changes to commit"
    /\ resets = 1 /\ llm_calls = 0 /\ _tokens_spent = 0

\* C35: the ceiling is taken from the configuration store once, when the ledger of the
\* run is reset, and every hard reservation and every over-budget check of the run is
\* decided against that value: a hard reservation is admitted exactly when spent plus
\* the amount is within the ceiling of the reset, is_over_budget answers whether spent
\* is above it, and no ledger operation writes the setting.
C35_CeilingFixedAtReset ==
    [][\A t \in Threads :
          /\ thr[t].pc = "locked" /\ thr[t].op = "reserve" /\ thr'[t].pc # "locked" =>
                (thr'[t].pc = "add" <=> _tokens_spent + thr[t].n <= CeilingAtReset)
          /\ thr[t].pc = "locked" /\ thr[t].op = "over_budget" /\ thr'[t].pc # "locked" =>
                (thr'[t].ret = "True" <=> _tokens_spent > CeilingAtReset)]_vars

\* the diff of a handle_large_diff call fits: its tokens are at most
\* min(available_for_diff, max(0, ceiling - spent - 500))
LargeAvailable == get_model_context_limit(fn.model_name) - 2000 - PROMPT_HEADER_TOKENS - 100
LargeFits(spent) ==
    SumSizes(chunks) <= Min(LargeAvailable, Max(0, token_budget - spent - 500))
\* handle_large_diff is back without having called split_and_summarize_diff
LargeLocal == ~ledger_used /\ llm_calls = 0 /\ entered = {} /\ tasks = <<>>

Stage1Pool == pc \in {"hier_pool", "samp_pool"}
\* the calls of summarise_file_diff whose request raised
RaisedWorkers ==
    {i \in 1..Len(tasks) :
        tasks[i].pc = "done" /\ tasks[i].resv = "hard_ok"
            /\ tasks[i].bullet.kind = "update_path"}
\* what a call of summarise_file_diff holds in the ledger: its reservation while the
\* request is out, what the call was counted as once it is back, nothing when the
\* reservation was refused or the request raised
WorkerCharge(t) ==
    CASE t.resv = "hard_ok" /\ t.pc \in {"invoke", "wait"} -> t.est
      [] t.resv = "hard_ok" /\ t.pc = "done" /\ t.bullet.kind \in {"llm", "update_file"} ->
            Min(t.est, real_spent(SummarisePromptTokens(t.chunk), t.bullet.text))
      [] OTHER -> 0
RECURSIVE WorkerCharges(_)
WorkerCharges(ts) == IF ts = <<>> THEN 0 ELSE WorkerCharge(Head(ts)) + WorkerCharges(Tail(ts))

\* C37: summarise_file_diff never raises and gives exactly one bullet.  A refused
\* reservation sends no request and leaves spent as it was; a request that raises gives
\* its whole reservation back and the call returns the local bullet '- Update <file>' of
\* its own chunk.  So stage 1 ends with one bullet per chunk it was given, and a worker
\* that failed changes neither the bullets nor the charges of the others.
C37_OneBulletPerChunk ==
    Stage1Pool =>
        /\ exc = "none"
        /\ \A i \in 1..Len(tasks) :
              LET t == tasks[i] IN
              /\ t.pc = "done" <=> t.bullet # NoBullet
              /\ t.pc = "done" => t.bullet.kind \in {"llm", "update_path", "update_file"}
              /\ t.bullet.kind = "update_path" => t.bullet = UpdatePathBullet(t.chunk)
              /\ t.resv = "hard_fail" => t.pc = "done" /\ t.bullet.kind = "update_path"
              /\ t.pc = "done" /\ t.resv = "hard_ok" /\ t.bullet.kind = "llm" =>
                    t.bullet.text # <<>>
        /\ llm_calls =
              Cardinality({i \in 1..Len(tasks) :
                              tasks[i].resv = "hard_ok" /\ tasks[i].pc \in {"wait", "done"}})
        /\ _tokens_spent = WorkerCharges(tasks)
        /\ \A i, j \in 1..Len(tasks) : tasks[i].chunk = tasks[j].chunk => i = j

\* stage 1 is over: the request for the first file raised, the second file has the
\* bullet of the model and is the only one charged
C37_Witness ==
    /\ Stage1Pool /\ AllDone /\ Len(tasks) = 2
    /\ RaisedWorkers = {1}
    /\ tasks[2].bullet.kind = "llm"
    /\ _tokens_spent = WorkerCharge(tasks[2]) /\ _tokens_spent > 0

\* C38: on every path, a request of the main thread that raised after its reservation
\* was granted has its whole reservation given back before the path goes on or falls
\* back: once the failure is known, spent is what it was before that reservation.  This
\* holds of the composing call, of the final synthesis of the hierarchical and sampled
\* paths and of every attempt of the single shot.
C38_FailedCallRefunded ==
    call.resv \in Granted /\ call.reply.kind = "raise" => _tokens_spent = call.before

\* what the usage count gives for a batch that was answered: the prompt, and the answer
BatchActual(i) ==
    (tasks[i].est - BatchCompletion)
        + (IF tasks[i].bullet = <<UpdateFilesTokens>> THEN 0 ELSE Sum(tasks[i].bullet))
\* what a batch of the split path holds in the ledger
BatchCharge(i) ==
    CASE tasks[i].pc \in {"invoke", "wait"} -> tasks[i].est
      [] tasks[i].pc = "done" /\ i \notin split.failed -> Min(tasks[i].est, BatchActual(i))
      [] OTHER -> 0
RECURSIVE BatchCharges(_)
BatchCharges(i) == IF i = 0 THEN 0 ELSE BatchCharge(i) + BatchCharges(i - 1)
\* the completion caps of the calls of the main thread
MainCompletions == {ComposeCompletion, FinalCompletion, RetryCompletion}

\* C39: after a call that was answered, what the call has added to spent is
\* min(reserved, actual), the actual usage being the tokens of the prompt plus the tokens
\* of the answer: the difference is refunded when the actual usage is below the
\* reservation, and an answer longer than reserved for is charged the reservation, no
\* more.  Stated for the calls of the main thread and for the batches of the split path.
C39_TrueUp ==
    /\ call.resv = "hard_ok" /\ call.reply.kind = "ok" =>
          \E cap \in MainCompletions :
              _tokens_spent
                  = call.before + Min(call.est, (call.est - cap) + token_len(call.reply.text))
    /\ pc = "split_pool" /\ entry = "split_and_summarize_diff" =>
          _tokens_spent = BatchCharges(Len(tasks))

\* two batches are back: one was answered at greater length than reserved for and is
\* charged its reservation, the other in two tokens and is charged its actual usage
C39_Witness ==
    /\ pc = "split_pool" /\ entry = "split_and_summarize_diff" /\ Len(tasks) = 2 /\ AllDone
    /\ split.failed = {}
    /\ BatchActual(1) > tasks[1].est
    /\ BatchActual(2) < tasks[2].est
    /\ _tokens_spent = tasks[1].est + BatchActual(2)

\* what the latest call of the main thread holds in the ledger: its reservation while
\* the request is out, min(reserved, actual) once it is answered, nothing when the
\* reservation was refused or the request raised
MainCharge ==
    CASE call.resv = "hard_ok" /\ call.reply.kind = "none" -> call.est
      [] call.resv = "hard_ok" /\ call.reply.kind = "ok" ->
            LET cap == CHOOSE c \in MainCompletions : TRUE
            IN Min(call.est, (call.est - cap) + token_len(call.reply.text))
      [] OTHER -> 0
\* the reservations that are out: those of the workers, and that of the main thread
ReservationsOut ==
    IF SplitRun THEN Outstanding
    ELSE InFlight(Len(tasks))
            + (IF call.resv = "hard_ok" /\ call.reply.kind = "none" THEN call.est ELSE 0)
\* the run is past the reset of its ledger and is not on the split path
PerFileRun ==
    /\ entry \in {"auto_commit_and_push", "hierarchical_commit_message",
                  "generate_commit_message_with_retry"}
    /\ entry = "auto_commit_and_push" => resets = 1

\* C40: under every interleaving of the workers, spent is the sum of the reservations
\* that are out and of the net charges of the calls that are settled (min(reserved,
\* actual) for a call that was answered, nothing for a call that was refused or that
\* failed); so what is out is never more than spent, and no refund finds less in the
\* ledger than it gives back.
C40_LedgerConservation ==
    /\ PerFileRun => _tokens_spent = WorkerCharges(tasks) + MainCharge
    /\ entry # "auto_commit_and_push" \/ resets = 1 => ReservationsOut <= _tokens_spent

====
